---- MODULE Spec2Model ----
(***************************************************************************)
(* AMLGuard decision core: the YAML rules engine                           *)
(* (services/rules/engine.py) and the stream processor                     *)
(* (services/stream/main.py, services/stream/consumer.py,                  *)
(* services/stream/producer.py).                                           *)
(*                                                                         *)
(* Python values are tagged records: t is the Python type, and one more    *)
(* field holds the payload.  Strings are sequences of characters, so that  *)
(* split, lower, substring search and float() parsing are computed.        *)
(* Numbers are integers (whole currency units); scores are fixed point.    *)
(***************************************************************************)
EXTENDS Integers, Sequences, FiniteSets, TLC

VARIABLES
    c_transaction,   \* SpecCond: the transaction handed to _evaluate_condition
    c_condition,     \* SpecCond: the condition document
    c_pc,            \* SpecCond: "ready" | "done"
    c_ret,           \* SpecCond: what _evaluate_condition returned or raised
    r_transaction,   \* SpecRule: the transaction handed to _evaluate_rule
    r_rule_config,   \* SpecRule: the rule document
    r_pc,            \* SpecRule: "ready" | "done"
    r_ret,           \* SpecRule: what _evaluate_rule returned or raised
    rules,           \* RulesEngine.rules: the dict, as its items in insertion order
    rule_stats,      \* RulesEngine.rule_stats: rule name -> counters
    disk,            \* the rules directory: an index into Directories
    loader_pc,       \* "new": before load_rules; "idle"; "cleared": reload_rules
                     \* has cleared self.rules and not yet loaded
    evals,           \* the evaluate_transaction calls, one record per caller
    generations,     \* history: the rule sets left by each completed load
    now,             \* the number of datetime.utcnow() timestamps taken
    calls,           \* evaluate_transaction calls begun
    reloads,         \* reload_rules calls begun
    call_log,        \* history: the transaction of each call begun, in order
    returned_stats,  \* the value the last get_rule_stats call returned, in
                     \* its caller's hands
    s_ml_prediction, \* SpecScore: the prediction handed to _calculate_final_risk_score
    s_rule_results,  \* SpecScore: the rule results handed to it
    s_pc,            \* SpecScore: "ready" | "done"
    s_ret,           \* SpecScore: the final score returned, in hundredths
    queue,           \* StreamProcessor.consumer.transaction_queue
    running,         \* StreamProcessor.running
    processed_count, \* StreamProcessor.processed_count
    p_pc,            \* where _process_transactions stands: "new" before start,
                     \* "loop", "get", "ml", "rules", "update", "alert", "exited"
    p_transaction,   \* locals of _process_single_transaction
    p_response,      \* what the POST to the ML service came to
    p_risk_prediction,
    p_rule_results,
    p_final_risk_score,
    updates,         \* the "Transaction updated" records logged, in order
    alerts,          \* the "Alert created" records logged, in order
    added,           \* transactions put on the queue so far
    passes,          \* transactions taken off the queue so far
    mlog,            \* history: the ML outcome of each pass, in order
    stop_at,         \* history: where the loop stood when stop was called
    transaction_queue,  \* transaction_consumer.transaction_queue (consumer.py:84)
    queue_size,      \* its maxsize
    consumer_processed_count,  \* transaction_consumer.processed_count
    consumer_log,    \* the lines add_transaction has logged, in order
    pr_running,      \* TransactionProducer.running
    pr_pc,           \* where the producer stands: "new" before start, "loop",
                     \* "batch", "put", "sleep", "exited"
    pr_batch,        \* iterations left of `for _ in range(batch_size)`
    generated        \* transactions the producer has generated so far

condVars == <<c_transaction, c_condition, c_pc, c_ret>>
ruleVars == <<r_transaction, r_rule_config, r_pc, r_ret>>
engineVars == <<rules, rule_stats, disk, loader_pc, evals, generations, now,
                calls, reloads, call_log, returned_stats>>

scoreVars == <<s_ml_prediction, s_rule_results, s_pc, s_ret>>
streamVars == <<queue, running, processed_count, p_pc, p_transaction, p_response,
                p_risk_prediction, p_rule_results, p_final_risk_score, updates,
                alerts, added, passes, mlog, stop_at>>

producerVars == <<transaction_queue, queue_size, consumer_processed_count,
                  consumer_log, pr_running, pr_pc, pr_batch, generated>>

vars == <<condVars, ruleVars, engineVars, scoreVars, streamVars, producerVars>>

----------------------------------------------------------------------------
(* Bounds of the model *)

\* amounts of the condition specification range over 0..MaxAmount
MaxAmount == 21

\* the most conditions a rule document of the model holds
MaxConditions == 2

\* transactions put on the queue of the stream processor
MaxTransactions == 2

\* concurrent callers of evaluate_transaction
MaxEvals == 2

\* evaluate_transaction calls in one behaviour
MaxCalls == 2

\* reload_rules calls in one behaviour
MaxReloads == 1

\* the queue of the producer specification holds up to 1..MaxQueueSize items
MaxQueueSize == 2

\* the producer draws its batch size from 1..MaxBatch
MaxBatch == 2

\* transactions the producer generates
MaxGenerated == 3

----------------------------------------------------------------------------
(* Python values *)

\* The payload's field is named after the type, so that two values of
\* different types are different records and are never compared payload to
\* payload.
None == [t |-> "none"]
Num(n) == [t |-> "num", n |-> n]
Str(s) == [t |-> "str", s |-> s]
List(l) == [t |-> "list", l |-> l]
Dict(d) == [t |-> "dict", d |-> d]

EmptyDict == Dict([k \in {} |-> None])

\* a == b on the modelled values
PyEq(a, b) == a = b

\* the outcome of an expression: err = "" and its value, or the exception raised
Ok(b) == [err |-> "", ret |-> b]
Raise(e) == [err |-> e, ret |-> FALSE]

Digits == {"0", "1", "2", "3", "4", "5", "6", "7", "8", "9"}

DigitValue(c) ==
    CASE c = "0" -> 0 [] c = "1" -> 1 [] c = "2" -> 2 [] c = "3" -> 3
      [] c = "4" -> 4 [] c = "5" -> 5 [] c = "6" -> 6 [] c = "7" -> 7
      [] c = "8" -> 8 [] c = "9" -> 9

DigitChar(d) ==
    CASE d = 0 -> "0" [] d = 1 -> "1" [] d = 2 -> "2" [] d = 3 -> "3"
      [] d = 4 -> "4" [] d = 5 -> "5" [] d = 6 -> "6" [] d = 7 -> "7"
      [] d = 8 -> "8" [] d = 9 -> "9"

RECURSIVE DecimalValue(_)
DecimalValue(s) ==
    IF s = <<>> THEN 0
    ELSE 10 * DecimalValue(SubSeq(s, 1, Len(s) - 1)) + DigitValue(s[Len(s)])

RECURSIVE DecimalDigits(_)
DecimalDigits(n) ==
    IF n < 10 THEN <<DigitChar(n)>>
    ELSE DecimalDigits(n \div 10) \o <<DigitChar(n % 10)>>

\* float(x): a number converts, a string of decimal digits parses, any other
\* string is a ValueError, any other type a TypeError.  (The strings of the
\* model hold letters, digits, '(' and '.', never a sign, an exponent, blanks
\* or the words inf and nan.)
Float(x) ==
    CASE x.t = "num" -> [err |-> "", val |-> x.n]
      [] x.t = "str" ->
            IF Len(x.s) > 0 /\ \A i \in 1..Len(x.s) : x.s[i] \in Digits
            THEN [err |-> "", val |-> DecimalValue(x.s)]
            ELSE [err |-> "ValueError", val |-> 0]
      [] OTHER -> [err |-> "TypeError", val |-> 0]

UpperCase == <<"A", "B", "C", "D", "E", "F", "G", "H", "I", "J", "K", "L", "M",
               "N", "O", "P", "Q", "R", "S", "T", "U", "V", "W", "X", "Y", "Z">>
LowerCase == <<"a", "b", "c", "d", "e", "f", "g", "h", "i", "j", "k", "l", "m",
               "n", "o", "p", "q", "r", "s", "t", "u", "v", "w", "x", "y", "z">>

LowerChar(c) ==
    IF \E i \in 1..Len(UpperCase) : UpperCase[i] = c
    THEN LowerCase[CHOOSE i \in 1..Len(UpperCase) : UpperCase[i] = c]
    ELSE c

\* s.lower()
Lower(s) == [i \in 1..Len(s) |-> LowerChar(s[i])]

\* p in s, for strings
IsSubstring(p, s) ==
    \E i \in 0..(Len(s) - Len(p)) : SubSeq(s, i + 1, i + Len(p)) = p

\* repr(x) of a value that sits inside a mapping
Repr(x) ==
    CASE x.t = "str" -> <<"'">> \o x.s \o <<"'">>
      [] x.t = "num" ->
            IF x.n < 0 THEN <<"-">> \o DecimalDigits(-x.n) ELSE DecimalDigits(x.n)
      [] OTHER -> <<"N", "o", "n", "e">>

\* str(x).  Mappings below the transaction hold at most one key in the model,
\* so that their printed form does not depend on an insertion order.
StrOf(x) ==
    CASE x.t = "str" -> x.s
      [] x.t = "dict" ->
            IF DOMAIN x.d = {} THEN <<"{", "}">>
            ELSE LET k == CHOOSE key \in DOMAIN x.d : TRUE
                 IN <<"{", "'">> \o k \o <<"'", ":", " ">> \o Repr(x.d[k]) \o <<"}">>
      [] OTHER -> Repr(x)

\* field_path.split(".")
RECURSIVE Split(_)
Split(s) ==
    IF \A i \in 1..Len(s) : s[i] # "." THEN <<s>>
    ELSE LET i == CHOOSE j \in 1..Len(s) :
                      s[j] = "." /\ \A k \in 1..(j - 1) : s[k] # "."
         IN <<SubSeq(s, 1, i - 1)>> \o Split(SubSeq(s, i + 1, Len(s)))

----------------------------------------------------------------------------
(* Condition evaluator: engine.py, _get_field_value, _apply_operator,      *)
(* _evaluate_condition                                                     *)

RECURSIVE WalkParts(_, _)
WalkParts(value, parts) ==
    IF parts = <<>> THEN value
    ELSE IF value.t = "dict" /\ Head(parts) \in DOMAIN value.d
         THEN WalkParts(value.d[Head(parts)], Tail(parts))
         ELSE None

_get_field_value(transaction, field_path) ==
    WalkParts(transaction, Split(field_path))

\* x in container
PyIn(x, container) ==
    CASE container.t = "list" ->
            Ok(\E i \in 1..Len(container.l) : PyEq(container.l[i], x))
      [] container.t = "str" ->
            IF x.t = "str" THEN Ok(IsSubstring(x.s, container.s))
            ELSE Raise("TypeError")
      [] container.t = "dict" ->
            IF x.t \in {"list", "dict"} THEN Raise("TypeError")
            ELSE Ok(x.t = "str" /\ x.s \in DOMAIN container.d)
      [] OTHER -> Raise("TypeError")

Negate(r) == IF r.err = "" THEN Ok(~r.ret) ELSE r

\* float(field_value) REL float(expected_value); the field converts first
FloatCompare(field_value, expected_value, rel) ==
    LET a == Float(field_value)
        b == Float(expected_value)
    IN  IF a.err # "" THEN Raise(a.err)
        ELSE IF b.err # "" THEN Raise(b.err)
        ELSE Ok(CASE rel = "gt" -> a.val > b.val
                  [] rel = "lt" -> a.val < b.val
                  [] rel = "ge" -> a.val >= b.val
                  [] rel = "le" -> a.val <= b.val)

\* re.search(pattern, text).  A pattern holding '(' has an unterminated group
\* (the model's strings hold no ')'): re.error.  '.' matches any character,
\* every other character of the model's strings is a literal.
RegexMatchesAt(pattern, text, i) ==
    /\ i + Len(pattern) <= Len(text)
    /\ \A k \in 1..Len(pattern) : pattern[k] = "." \/ pattern[k] = text[i + k]

ReSearch(pattern, text) ==
    IF pattern.t # "str" THEN Raise("TypeError")
    ELSE IF \E i \in 1..Len(pattern.s) : pattern.s[i] = "(" THEN Raise("re.error")
    ELSE Ok(\E i \in 0..Len(text) : RegexMatchesAt(pattern.s, text, i))

\* expected_value[0] <= float(field_value) <= expected_value[1]
Between(field_value, expected_value) ==
    IF expected_value.t = "list" /\ Len(expected_value.l) = 2
    THEN LET lo == expected_value.l[1]
             hi == expected_value.l[2]
             x == Float(field_value)
         IN  IF x.err # "" THEN Raise(x.err)
             ELSE IF lo.t # "num" THEN Raise("TypeError")
             ELSE IF ~(lo.n <= x.val) THEN Ok(FALSE)
             ELSE IF hi.t # "num" THEN Raise("TypeError")
             ELSE Ok(x.val <= hi.n)
    ELSE Ok(FALSE)

\* near_threshold with the upper comparison written <= instead of <
NearThresholdInclusive(field_value, expected_value) ==
    LET threshold == Float(expected_value)
        amount == Float(field_value)
    IN  IF threshold.err # "" THEN Raise(threshold.err)
        ELSE IF amount.err # "" THEN Raise(amount.err)
        ELSE Ok(threshold.val * 17 <= amount.val * 20 /\ amount.val <= threshold.val)

\* threshold = float(expected_value); amount = float(field_value);
\* (threshold * 0.85) <= amount < threshold, with 0.85 = 17/20
NearThreshold(field_value, expected_value) ==
    LET threshold == Float(expected_value)
        amount == Float(field_value)
    IN  IF threshold.err # "" THEN Raise(threshold.err)
        ELSE IF amount.err # "" THEN Raise(amount.err)
        ELSE Ok(threshold.val * 17 <= amount.val * 20 /\ amount.val < threshold.val)

\* the body of the try block of _apply_operator
OperatorBody(field_value, operator, expected_value) ==
    CASE operator = "equals" -> Ok(PyEq(field_value, expected_value))
      [] operator = "not_equals" -> Ok(~PyEq(field_value, expected_value))
      [] operator = "greater_than" -> FloatCompare(field_value, expected_value, "gt")
      [] operator = "less_than" -> FloatCompare(field_value, expected_value, "lt")
      [] operator = "greater_equal" -> FloatCompare(field_value, expected_value, "ge")
      [] operator = "less_equal" -> FloatCompare(field_value, expected_value, "le")
      [] operator = "in" -> PyIn(field_value, expected_value)
      [] operator = "not_in" -> Negate(PyIn(field_value, expected_value))
      [] operator = "contains" ->
            PyIn(expected_value, Str(Lower(StrOf(field_value))))
      [] operator = "not_contains" ->
            Negate(PyIn(expected_value, Str(Lower(StrOf(field_value)))))
      [] operator = "regex" -> ReSearch(expected_value, StrOf(field_value))
      [] operator = "between" -> Between(field_value, expected_value)
      [] operator = "near_threshold" -> NearThreshold(field_value, expected_value)
      [] OTHER -> Ok(FALSE)

\* except (ValueError, TypeError, AttributeError): return False; any other
\* exception leaves _apply_operator
CaughtByApplyOperator == {"ValueError", "TypeError", "AttributeError"}

ExceptClause(r) == IF r.err \in CaughtByApplyOperator THEN Ok(FALSE) ELSE r

_apply_operator(field_value, operator, expected_value) ==
    ExceptClause(OperatorBody(field_value, operator, expected_value))

\* _evaluate_condition without the `if field_value is None` return
_evaluate_condition_unguarded(condition, transaction) ==
    IF condition.field = None \/ condition.field = Str(<<>>) \/ condition.operator = ""
    THEN Ok(FALSE)
    ELSE _apply_operator(_get_field_value(transaction, condition.field.s),
                         condition.operator, condition.value)

\* a condition document: field and value are Python values, operator is the
\* operator's name, "" when the document has none
_evaluate_condition(condition, transaction) ==
    IF condition.field = None \/ condition.field = Str(<<>>) \/ condition.operator = ""
    THEN Ok(FALSE)
    ELSE LET field_value == _get_field_value(transaction, condition.field.s)
         IN  IF field_value = None THEN Ok(FALSE)
             ELSE _apply_operator(field_value, condition.operator, condition.value)

----------------------------------------------------------------------------
(* Rule evaluator: engine.py, _evaluate_rule                               *)

\* rule_config.get(key, default) on a rule document [t, keys, ...]
Get(rule_config, key, default) ==
    IF key \in rule_config.keys THEN rule_config[key] ELSE default

\* score = 0.5 when the document gives none, in hundredths
DefaultScore == 50

RECURSIVE Gcd(_, _)
Gcd(a, b) == IF b = 0 THEN a ELSE Gcd(b, a % b)

RECURSIVE LcmUpTo(_)
LcmUpTo(n) ==
    IF n <= 1 THEN 1 ELSE LET l == LcmUpTo(n - 1) IN (l * n) \div Gcd(l, n)

\* A rule score s of the model stands for s / (100 * ScoreUnit): base scores
\* are hundredths and base_score * k / n is exact for n <= MaxConditions.
ScoreUnit == LcmUpTo(MaxConditions)

\* the loop over the conditions, given each condition's outcome: the results
\* in order, or the exception the first failing _evaluate_condition lets through
CollectResults(outcomes) ==
    IF \E i \in 1..Len(outcomes) : outcomes[i].err # ""
    THEN [err |-> outcomes[CHOOSE i \in 1..Len(outcomes) :
                               /\ outcomes[i].err # ""
                               /\ \A j \in 1..(i - 1) : outcomes[j].err = ""].err,
          results |-> <<>>]
    ELSE [err |-> "", results |-> [i \in 1..Len(outcomes) |-> outcomes[i].ret]]

ConditionResults(conditions, transaction) ==
    CollectResults([i \in 1..Len(conditions) |->
                       _evaluate_condition(conditions[i], transaction)])

\* sum(condition_results)
CountTrue(results) == Cardinality({i \in 1..Len(results) : results[i]})

RuleReturn(is_triggered, final_score) ==
    [err |-> "", is_triggered |-> is_triggered, final_score |-> final_score]

RuleRaise(e) == [err |-> e, is_triggered |-> FALSE, final_score |-> 0]

\* the logic with any() for a logic value that is neither AND nor OR
ApplyLogicUnknownAsOr(logic, condition_results) ==
    IF logic = "AND" THEN \A i \in 1..Len(condition_results) : condition_results[i]
    ELSE \E i \in 1..Len(condition_results) : condition_results[i]

\* lines 104-111: all() under AND, any() under OR, all() under anything else
ApplyLogic(logic, condition_results) ==
    IF logic = "AND" THEN \A i \in 1..Len(condition_results) : condition_results[i]
    ELSE IF logic = "OR" THEN \E i \in 1..Len(condition_results) : condition_results[i]
    ELSE \A i \in 1..Len(condition_results) : condition_results[i]

\* the score without the share of true conditions
RuleScoreFull(is_triggered, base_score, condition_results) ==
    IF is_triggered THEN RuleReturn(TRUE, base_score * ScoreUnit)
    ELSE RuleReturn(FALSE, 0)

\* lines 113-120: base_score * (sum / len) when triggered, else 0.0
RuleScore(is_triggered, base_score, condition_results) ==
    IF is_triggered
    THEN RuleReturn(TRUE, base_score * ((CountTrue(condition_results) * ScoreUnit)
                                         \div Len(condition_results)))
    ELSE RuleReturn(FALSE, 0)

\* lines 98-120, c being the outcome of the loop over the conditions
CombineConditions(logic, base_score, c) ==
    IF c.err # "" THEN RuleRaise(c.err)
    ELSE RuleScore(ApplyLogic(logic, c.results), base_score, c.results)

_evaluate_rule(rule_config, transaction) ==
    IF rule_config.t # "dict" THEN RuleRaise("AttributeError")
    ELSE IF Get(rule_config, "conditions", <<>>) = <<>> THEN RuleReturn(FALSE, 0)
    ELSE CombineConditions(
             Get(rule_config, "logic", "AND"),
             Get(rule_config, "score", Num(DefaultScore)).n,
             ConditionResults(Get(rule_config, "conditions", <<>>), transaction))

----------------------------------------------------------------------------
(* Rule registry: engine.py, load_rules, reload_rules, evaluate_transaction *)

\* a YAML file yaml.safe_load cannot parse
Unparseable == [t |-> "yaml_error"]

\* the statistics load_rules gives a rule it registers
FreshStats == [triggers |-> 0, evaluations |-> 0, last_triggered |-> 0]

\* d[name] = value on a dict kept as its items in insertion order
DictSet(items, name, value) ==
    IF \E i \in 1..Len(items) : items[i].name = name
    THEN [i \in 1..Len(items) |->
             IF items[i].name = name THEN [name |-> name, config |-> value]
             ELSE items[i]]
    ELSE Append(items, [name |-> name, config |-> value])

\* f[name] = value on a mapping
MapSet(f, name, value) == (name :> value) @@ f

\* the orders in which glob("*.yaml") may yield the files
Orderings(S) ==
    {order \in [1..Cardinality(S) -> S] :
        \A i, j \in 1..Cardinality(S) : i # j => order[i] # order[j]}

\* LoadFiles keeping the statistics a name already has
RECURSIVE LoadFilesKeepingStats(_, _, _, _)
LoadFilesKeepingStats(files, order, i, reg) ==
    IF i > Len(order) THEN reg
    ELSE LET rule_name == order[i]
         IN  LoadFilesKeepingStats(files, order, i + 1,
                 IF files[rule_name] = Unparseable THEN reg
                 ELSE [rules |-> DictSet(reg.rules, rule_name, files[rule_name]),
                       rule_stats |-> IF rule_name \in DOMAIN reg.rule_stats
                                      THEN reg.rule_stats
                                      ELSE MapSet(reg.rule_stats, rule_name, FreshStats)])

\* the for loop of load_rules over the files in glob order: a file that does
\* not parse is logged and skipped, every other document is registered under
\* the file's stem with fresh statistics
RECURSIVE LoadFiles(_, _, _, _)
LoadFiles(files, order, i, reg) ==
    IF i > Len(order) THEN reg
    ELSE LET rule_name == order[i]
         IN  LoadFiles(files, order, i + 1,
                 IF files[rule_name] = Unparseable THEN reg
                 ELSE [rules |-> DictSet(reg.rules, rule_name, files[rule_name]),
                       rule_stats |-> MapSet(reg.rule_stats, rule_name, FreshStats)])

\* load_rules on a directory [exists, files], reg = [rules, rule_stats] before
load_rules(dir, order, reg) ==
    IF ~dir.exists THEN reg ELSE LoadFiles(dir.files, order, 1, reg)

\* CountEvaluation losing the increment when another call is suspended in the
\* evaluation of the same rule
CountEvaluationUnlessBusy(stats, rule_name) ==
    IF \E e \in 1..MaxEvals :
          evals[e].pc = "awaiting" /\ evals[e].current.name = rule_name
    THEN stats
    ELSE [stats EXCEPT ![rule_name].evaluations = @ + 1]

\* self.rule_stats[rule_name]["evaluations"] += 1
CountEvaluation(stats, rule_name) ==
    [stats EXCEPT ![rule_name].evaluations = @ + 1]

\* RecordOutcome counting a trigger for every rule whose evaluation returned
RecordOutcomeEveryReturn(acc, rule_name, r) ==
    IF r.err # "" THEN acc
    ELSE [triggered_rules |-> IF r.is_triggered
                              THEN Append(acc.triggered_rules, rule_name)
                              ELSE acc.triggered_rules,
          rule_scores |-> IF r.is_triggered
                          THEN MapSet(acc.rule_scores, rule_name, r.final_score)
                          ELSE acc.rule_scores,
          rule_stats |-> [acc.rule_stats EXCEPT
                             ![rule_name].triggers = @ + 1,
                             ![rule_name].last_triggered = acc.now + 1],
          now |-> acc.now + 1]

\* RecordOutcome counting consecutive triggers: a rule that returns without
\* triggering starts again at 0
RecordOutcomeStreak(acc, rule_name, r) ==
    IF r.err # "" THEN acc
    ELSE IF r.is_triggered
    THEN [triggered_rules |-> Append(acc.triggered_rules, rule_name),
          rule_scores |-> MapSet(acc.rule_scores, rule_name, r.final_score),
          rule_stats |-> [acc.rule_stats EXCEPT
                             ![rule_name].triggers = @ + 1,
                             ![rule_name].last_triggered = acc.now + 1],
          now |-> acc.now + 1]
    ELSE [acc EXCEPT !.rule_stats[rule_name].triggers = 0]

\* RecordOutcome reporting a rule only the first time it triggers
RecordOutcomeFirstTrigger(acc, rule_name, r) ==
    IF r.err # "" THEN acc
    ELSE IF r.is_triggered /\ acc.rule_stats[rule_name].triggers = 0
    THEN [triggered_rules |-> Append(acc.triggered_rules, rule_name),
          rule_scores |-> MapSet(acc.rule_scores, rule_name, r.final_score),
          rule_stats |-> [acc.rule_stats EXCEPT
                             ![rule_name].triggers = @ + 1,
                             ![rule_name].last_triggered = acc.now + 1],
          now |-> acc.now + 1]
    ELSE acc

\* RecordOutcome keeping the score of every rule whose evaluation returned,
\* triggered or not
RecordOutcomeScoringAll(acc, rule_name, r) ==
    IF r.err # "" THEN acc
    ELSE IF r.is_triggered
    THEN [triggered_rules |-> Append(acc.triggered_rules, rule_name),
          rule_scores |-> MapSet(acc.rule_scores, rule_name, r.final_score),
          rule_stats |-> [acc.rule_stats EXCEPT
                             ![rule_name].triggers = @ + 1,
                             ![rule_name].last_triggered = acc.now + 1],
          now |-> acc.now + 1]
    ELSE [acc EXCEPT !.rule_scores = MapSet(@, rule_name, r.final_score)]

\* RecordOutcome without line 70: a trigger is counted and its time not kept
RecordOutcomeUntimed(acc, rule_name, r) ==
    IF r.err # "" THEN acc
    ELSE IF r.is_triggered
    THEN [triggered_rules |-> Append(acc.triggered_rules, rule_name),
          rule_scores |-> MapSet(acc.rule_scores, rule_name, r.final_score),
          rule_stats |-> [acc.rule_stats EXCEPT ![rule_name].triggers = @ + 1],
          now |-> acc.now + 1]
    ELSE acc

\* What follows `await self._evaluate_rule(...)` for one rule, r being what the
\* call returned or raised; acc = [triggered_rules, rule_scores, rule_stats, now].
\* An exception is logged and the rule left out.
RecordOutcome(acc, rule_name, r) ==
    IF r.err # "" THEN acc
    ELSE IF r.is_triggered
    THEN [triggered_rules |-> Append(acc.triggered_rules, rule_name),
          rule_scores |-> MapSet(acc.rule_scores, rule_name, r.final_score),
          rule_stats |-> [acc.rule_stats EXCEPT
                             ![rule_name].triggers = @ + 1,
                             ![rule_name].last_triggered = acc.now + 1],
          now |-> acc.now + 1]
    ELSE acc

\* The iterator of `for rule_name, rule_config in self.rules.items()`: pos items
\* yielded, di_used the dict's size when the loop began.  next() raises
\* RuntimeError when the size has changed, stops at the end of the items, and
\* else yields the item at pos whatever dict content it now belongs to.
IterNext(ev, items) ==
    IF ev.di_used # Len(items) THEN "RuntimeError"
    ELSE IF ev.pos >= Len(items) THEN "StopIteration"
    ELSE "item"

\* From the top of the for loop to the next await or the end of the call.
\* st = [ev, rule_stats].  A rule without statistics is a KeyError at line 61,
\* logged by the except clause; the loop goes on.
RECURSIVE Advance(_, _)
Advance(st, items) ==
    LET step == IterNext(st.ev, items)
    IN  IF step = "RuntimeError"
        THEN [ev |-> [st.ev EXCEPT !.pc = "raised"], rule_stats |-> st.rule_stats]
        ELSE IF step = "StopIteration"
        THEN [ev |-> [st.ev EXCEPT !.pc = "returned"], rule_stats |-> st.rule_stats]
        ELSE IF items[st.ev.pos + 1].name \notin DOMAIN st.rule_stats
        THEN Advance([ev |-> [st.ev EXCEPT !.pos = @ + 1,
                                           !.seen = Append(@, items[st.ev.pos + 1])],
                      rule_stats |-> st.rule_stats], items)
        ELSE [ev |-> [st.ev EXCEPT !.pc = "awaiting",
                                   !.pos = @ + 1,
                                   !.current = items[st.ev.pos + 1],
                                   !.seen = Append(@, items[st.ev.pos + 1])],
              rule_stats |-> CountEvaluation(st.rule_stats, items[st.ev.pos + 1].name)]

\* The loop after one rule's outcome acc has been recorded, or (acc holding
\* the call's fresh locals) from its start: [ev, rule_stats, now]
AdvanceWith(st, time) == [ev |-> st.ev, rule_stats |-> st.rule_stats, now |-> time]

ResumeFromOutcome(ev, acc, items) ==
    AdvanceWith(Advance([ev |-> [ev EXCEPT !.triggered_rules = acc.triggered_rules,
                                           !.rule_scores = acc.rule_scores],
                         rule_stats |-> acc.rule_stats], items),
                acc.now)

\* get_rule_stats: self.rule_stats.copy(), a new outer dict whose values are
\* the very per-rule dicts the engine holds.  An entry of the returned value
\* is [shared, stats]: stats is the content of the per-rule dict, shared says
\* that it is still the object self.rule_stats holds under that name.
get_rule_stats(stats) ==
    [name \in DOMAIN stats |-> [shared |-> TRUE, stats |-> stats[name]]]

\* a returned value after the engine has updated its per-rule dicts in place
\* (lines 61, 69, 70): the shared entries show the new counters
SeenThrough(returned, stats) ==
    [name \in DOMAIN returned |->
        IF returned[name].shared
        THEN [shared |-> TRUE, stats |-> stats[name]]
        ELSE returned[name]]

\* a returned value after load_rules has run on dir: line 40 binds a new dict
\* to every name it registers, and the returned value keeps the old one
Rebound(returned, dir) ==
    [name \in DOMAIN returned |->
        IF dir.exists /\ name \in DOMAIN dir.files /\ dir.files[name] # Unparseable
        THEN [returned[name] EXCEPT !.shared = FALSE]
        ELSE returned[name]]

\* get_rules_summary: one entry per registered rule; rule_config.get on a
\* document that is not a mapping is an AttributeError, which nothing catches
get_rules_summary(items, stats) ==
    IF \E i \in 1..Len(items) : items[i].config.t # "dict"
    THEN [err |-> "AttributeError", ret |-> <<>>]
    ELSE [err |-> "",
          ret |-> [i \in 1..Len(items) |->
                     [name |-> items[i].name,
                      enabled |-> Get(items[i].config, "enabled", TRUE),
                      score |-> Get(items[i].config, "score", Num(DefaultScore)),
                      stats |-> IF items[i].name \in DOMAIN stats
                                THEN stats[items[i].name] ELSE FreshStats]]]

NoRule == [name |-> "", config |-> None]

EmptyMap == [k \in {} |-> 0]

\* a caller of evaluate_transaction that has not called yet
IdleEval ==
    [pc |-> "idle", transaction |-> EmptyDict, pos |-> 0, di_used |-> 0,
     current |-> NoRule, triggered_rules |-> <<>>, rule_scores |-> EmptyMap,
     seen |-> <<>>]

\* lines 56-59: the call's locals and the iterator over self.rules.items()
NewEval(transaction, items) ==
    [pc |-> "running", transaction |-> transaction, pos |-> 0,
     di_used |-> Len(items), current |-> NoRule, triggered_rules |-> <<>>,
     rule_scores |-> EmptyMap, seen |-> <<>>]

----------------------------------------------------------------------------
(* Stream processor: stream/main.py.  Risk scores are in hundredths, rule   *)
(* scores in units of 1 / (100 * ScoreUnit).                                *)

\* the greatest risk_score a RiskPrediction of the ML service carries: 10
MaxRiskScore == 1000

\* asyncio.Queue(maxsize=queue_size)
QueueSize == 1000

\* a RiskPrediction as response.json() gives it
MlPrediction(risk_score, confidence) ==
    [t |-> "dict", keys |-> {"risk_score", "confidence"},
     risk_score |-> risk_score, confidence |-> confidence]

\* `if ml_prediction:` is false on None and on the empty dict
Truthy(d) == d # None /\ d.keys # {}

MaxOf(S) == CHOOSE x \in S : \A y \in S : y <= x

MinOf(a, b) == IF a <= b THEN a ELSE b

\* round(n / d) to the nearest integer, a tie going to the even one
Round(n, d) ==
    IF 2 * (n % d) < d THEN n \div d
    ELSE IF 2 * (n % d) > d THEN (n \div d) + 1
    ELSE IF (n \div d) % 2 = 0 THEN n \div d
    ELSE (n \div d) + 1

\* the weighted score without the boost of 1.0 for triggered rules
CombineScoresUnboosted(ml_score, max_rule_score, triggered_rules) ==
    IF triggered_rules # <<>>
    THEN Round(MinOf(1000 * 10 * ScoreUnit,
                     6 * ml_score * ScoreUnit + 40 * max_rule_score),
               10 * ScoreUnit)
    ELSE Round(8 * ml_score * ScoreUnit + 20 * max_rule_score, 10 * ScoreUnit)

\* the weighted score without the cap min(10.0, ...)
CombineScoresUncapped(ml_score, max_rule_score, triggered_rules) ==
    IF triggered_rules # <<>>
    THEN Round(6 * ml_score * ScoreUnit + 40 * max_rule_score
               + 100 * 10 * ScoreUnit,
               10 * ScoreUnit)
    ELSE Round(8 * ml_score * ScoreUnit + 20 * max_rule_score, 10 * ScoreUnit)

\* min(10.0, 0.6*ml + 0.4*max*10 + 1.0) or 0.8*ml + 0.2*max*10, over the
\* denominator 10 * ScoreUnit, rounded to hundredths
CombineScores(ml_score, max_rule_score, triggered_rules) ==
    IF triggered_rules # <<>>
    THEN Round(MinOf(1000 * 10 * ScoreUnit,
                     6 * ml_score * ScoreUnit + 40 * max_rule_score
                     + 100 * 10 * ScoreUnit),
               10 * ScoreUnit)
    ELSE Round(8 * ml_score * ScoreUnit + 20 * max_rule_score, 10 * ScoreUnit)

_calculate_final_risk_score(ml_prediction, rule_results) ==
    CombineScores(
        IF Truthy(ml_prediction) THEN Get(ml_prediction, "risk_score", 0) ELSE 0,
        IF DOMAIN rule_results.rule_scores # {}
        THEN MaxOf({rule_results.rule_scores[k] : k \in DOMAIN rule_results.rule_scores})
        ELSE 0,
        rule_results.triggered_rules)

\* _get_ml_prediction without its except clause
_get_ml_prediction_uncaught(outcome) ==
    IF outcome.kind = "exception" THEN Raise(outcome.error)
    ELSE IF outcome.status_code = 200 THEN Ok(outcome.json)
    ELSE Ok(None)

\* _get_ml_prediction, given what the POST came to: a response or an exception
\* (a refused connection, the timeout of 30 s); every exception is caught
_get_ml_prediction(outcome) ==
    IF outcome.kind = "exception" THEN Ok(None)
    ELSE IF outcome.status_code = 200 THEN Ok(outcome.json)
    ELSE Ok(None)

NoRuleResults == [triggered_rules |-> <<>>, rule_scores |-> EmptyMap]

\* RunEvaluation without the except clause of lines 79-80: a rule's exception
\* ends the call
RECURSIVE RunEvaluationAborting(_, _)
RunEvaluationAborting(st, items) ==
    IF st.ev.pc # "awaiting" THEN st
    ELSE IF _evaluate_rule(st.ev.current.config, st.ev.transaction).err # ""
    THEN [st EXCEPT !.ev.pc = "raised"]
    ELSE RunEvaluationAborting(
             ResumeFromOutcome(st.ev,
                 RecordOutcome([triggered_rules |-> st.ev.triggered_rules,
                                rule_scores |-> st.ev.rule_scores,
                                rule_stats |-> st.rule_stats,
                                now |-> st.now],
                               st.ev.current.name,
                               _evaluate_rule(st.ev.current.config, st.ev.transaction)),
                 items),
             items)

\* evaluate_transaction run from st = [ev, rule_stats, now] to its end,
\* nothing else touching the engine meanwhile
RECURSIVE RunEvaluation(_, _)
RunEvaluation(st, items) ==
    IF st.ev.pc # "awaiting" THEN st
    ELSE RunEvaluation(
             ResumeFromOutcome(st.ev,
                 RecordOutcome([triggered_rules |-> st.ev.triggered_rules,
                                rule_scores |-> st.ev.rule_scores,
                                rule_stats |-> st.rule_stats,
                                now |-> st.now],
                               st.ev.current.name,
                               _evaluate_rule(st.ev.current.config, st.ev.transaction)),
                 items),
             items)

evaluate_transaction(transaction, items, stats, time) ==
    RunEvaluation(
        ResumeFromOutcome(NewEval(transaction, items),
                          [triggered_rules |-> <<>>, rule_scores |-> EmptyMap,
                           rule_stats |-> stats, now |-> time],
                          items),
        items)

\* _apply_rules on what evaluate_transaction came to
ApplyRulesResult(ev) ==
    IF ev.pc = "raised" THEN NoRuleResults
    ELSE [triggered_rules |-> ev.triggered_rules, rule_scores |-> ev.rule_scores]

\* the status with the comparison written > instead of >=
StatusStrict(final_risk_score) ==
    IF final_risk_score > 600 THEN "flagged" ELSE "clear"

\* "status" of update_data
Status(final_risk_score) == IF final_risk_score >= 600 THEN "flagged" ELSE "clear"

_update_transaction(transaction_id, ml_prediction, rule_results, final_risk_score) ==
    [transaction_id |-> transaction_id,
     risk_score |-> final_risk_score,
     ml_prediction |-> ml_prediction,
     rules_hit |-> rule_results.triggered_rules,
     status |-> Status(final_risk_score)]

\* the severity with the first test at 9.0
SeverityLate(risk_score) ==
    IF risk_score >= 900 THEN "critical"
    ELSE IF risk_score >= 600 THEN "high"
    ELSE "medium"

Severity(risk_score) ==
    IF risk_score >= 800 THEN "critical"
    ELSE IF risk_score >= 600 THEN "high"
    ELSE "medium"

\* `name in triggered_rules`
InList(name, list) == \E i \in 1..Len(list) : list[i] = name

\* the alert type taken from the first triggered rule
AlertTypeFirst(triggered_rules) ==
    IF triggered_rules = <<>> THEN "anomaly"
    ELSE IF triggered_rules[1] \in {"structuring", "velocity", "geographic"}
    THEN triggered_rules[1]
    ELSE "anomaly"

AlertType(triggered_rules) ==
    IF InList("structuring", triggered_rules) THEN "structuring"
    ELSE IF InList("velocity", triggered_rules) THEN "velocity"
    ELSE IF InList("geographic", triggered_rules) THEN "geographic"
    ELSE "anomaly"

_create_alert(transaction_id, ml_prediction, rule_results, risk_score) ==
    [transaction_id |-> transaction_id,
     alert_type |-> AlertType(rule_results.triggered_rules),
     severity |-> Severity(risk_score),
     triggered_rules |-> rule_results.triggered_rules,
     risk_score |-> risk_score]

----------------------------------------------------------------------------
(* Inputs of the condition specification *)

Absent == [t |-> "absent"]

\* the mapping holding the keys whose value is not Absent
MakeDict(pairs) ==
    Dict([k \in {key \in DOMAIN pairs : pairs[key] # Absent} |-> pairs[k]])

K_amount == <<"a", "m", "o", "u", "n", "t">>
K_description == <<"d", "e", "s", "c", "r", "i", "p", "t", "i", "o", "n">>
K_location == <<"l", "o", "c", "a", "t", "i", "o", "n">>
K_country == <<"c", "o", "u", "n", "t", "r", "y">>
K_city == <<"c", "i", "t", "y">>

S_IR == <<"I", "R">>
S_Wire == <<"W", "i", "r", "e">>
S_wire == <<"w", "i", "r", "e">>
S_ab == <<"a", "b">>

AmountValues ==
    {Absent, None, Str(<<"1", "7">>), Str(S_ab)} \cup {Num(n) : n \in 0..MaxAmount}

DescriptionValues == {Absent, Str(S_Wire)}

LocationValues ==
    {Absent, Str(<<"x">>), Dict((K_country :> Str(S_IR)))}

Transaction(amount, description, location) ==
    MakeDict((K_amount :> amount) @@ (K_description :> description)
             @@ (K_location :> location))

CondTransactions ==
    {Transaction(a, d, l) : a \in AmountValues, d \in DescriptionValues,
                            l \in LocationValues}

\* the field paths of the conditions; the last five do not resolve against
\* any transaction of the model
CondFields ==
    {None, Str(<<>>), Str(K_amount), Str(K_description), Str(K_location),
     Str(K_location \o <<".">> \o K_country),
     Str(K_location \o <<".">> \o K_city),
     Str(K_amount \o <<".">> \o K_city),
     Str(K_country),
     Str(K_location \o <<".">> \o K_country \o <<".">> \o K_city),
     Str(K_location \o <<".">>)}

Operators ==
    {"equals", "not_equals", "greater_than", "less_than", "greater_equal",
     "less_equal", "in", "not_in", "contains", "not_contains", "regex",
     "between", "near_threshold"}

CondOperators == Operators \cup {"", "bogus"}

CondValues ==
    {None, Num(0), Num(7), Num(20), Str(<<"2", "0">>), Str(S_ab), Str(S_wire),
     Str(S_IR), Str(<<"(">>), Str(<<"W", ".", "r">>),
     List(<<Num(5), Num(20)>>), List(<<Str(S_IR)>>), List(<<Num(17), Str(S_ab)>>)}

CondConditions ==
    [field : CondFields, operator : CondOperators, value : CondValues]

----------------------------------------------------------------------------
(* Inputs of the rule specification *)

Condition(field, operator, value) ==
    [field |-> Str(field), operator |-> operator, value |-> value]

\* a rule document; logic "" and score Absent stand for a document without
\* that key, enabled is "true", "false" or "absent"
RuleConfig(conditions, logic, score, enabled) ==
    [t |-> "dict",
     keys |-> {"conditions"}
              \cup (IF logic = "" THEN {} ELSE {"logic"})
              \cup (IF score = Absent THEN {} ELSE {"score"})
              \cup (IF enabled = "absent" THEN {} ELSE {"enabled"}),
     conditions |-> conditions,
     logic |-> logic,
     score |-> score,
     enabled |-> (enabled # "false")]

CondAmountPositive == Condition(K_amount, "greater_than", Num(0))
CondNearThreshold == Condition(K_amount, "near_threshold", Num(20))
CondCountryListed ==
    Condition(K_location \o <<".">> \o K_country, "in", List(<<Str(S_IR)>>))
CondCityEquals ==
    Condition(K_location \o <<".">> \o K_city, "not_equals", Str(S_IR))
\* float("Wire") is a ValueError
CondDescriptionNumber == Condition(K_description, "greater_than", Num(20))
\* "(" is not a regular expression
CondDescriptionRegex == Condition(K_description, "regex", Str(<<"(">>))

RuleConditionPool ==
    {CondAmountPositive, CondNearThreshold, CondCountryListed, CondCityEquals,
     CondDescriptionNumber, CondDescriptionRegex}

RECURSIVE SeqsUpTo(_, _)
SeqsUpTo(S, n) ==
    IF n = 0 THEN {<<>>}
    ELSE LET shorter == SeqsUpTo(S, n - 1)
         IN  shorter \cup {Append(p, x) : p \in shorter, x \in S}

RuleTransactions ==
    {Transaction(a, d, l) :
        a \in {Num(17), Num(21)},
        d \in {Absent, Str(S_Wire)},
        l \in {Absent, Dict((K_country :> Str(S_IR)))}}

RuleConfigs ==
    {RuleConfig(cs, l, sc, "absent") :
        cs \in SeqsUpTo(RuleConditionPool, MaxConditions),
        l \in {"", "AND", "OR", "XOR"},
        sc \in {Absent, Num(80), Num(100)}}

----------------------------------------------------------------------------
(* Inputs of the registry specification: the rules directory over time     *)

\* structuring.yaml: amounts just under the threshold of 20
DocStructuring == RuleConfig(<<CondNearThreshold>>, "AND", Num(80), "true")
\* structuring.yaml after an edit
DocStructuringEdited ==
    RuleConfig(<<CondNearThreshold, CondCountryListed>>, "OR", Num(100), "absent")
\* velocity.yaml, switched off
DocVelocityDisabled == RuleConfig(<<CondAmountPositive>>, "", Absent, "false")
\* geographic.yaml; its second condition holds a malformed pattern
DocGeographic ==
    RuleConfig(<<CondCountryListed, CondDescriptionRegex>>, "OR", Num(60), "true")

RuleNames == {"structuring", "velocity", "geographic"}

Directories ==
    <<[exists |-> TRUE,
       files |-> ("structuring" :> DocStructuring)
                 @@ ("velocity" :> DocVelocityDisabled)],
      [exists |-> TRUE,
       files |-> ("structuring" :> DocStructuringEdited)
                 @@ ("geographic" :> DocGeographic)],
      [exists |-> FALSE, files |-> EmptyMap],
      [exists |-> TRUE,
       files |-> ("structuring" :> DocStructuring) @@ ("velocity" :> Unparseable)
                 @@ ("geographic" :> None)]>>

EngineTransactions ==
    {Transaction(Num(17), Str(S_Wire), Dict((K_country :> Str(S_IR)))),
     Transaction(Num(21), Absent, Absent)}

----------------------------------------------------------------------------
(* Inputs of the score specification *)

ScoreNames == {"structuring", "velocity"}

\* rule scores 0, 0.4, 0.8 and 1.0
ScoreGrid == {0, 40 * ScoreUnit, 80 * ScoreUnit, 100 * ScoreUnit}

ScoreMaps == UNION {[names -> ScoreGrid] : names \in SUBSET ScoreNames}

\* the results evaluate_transaction can return for such scores, and the same
\* scores with no rule named as triggered
ScoreRuleResults ==
    UNION {{[triggered_rules |-> order, rule_scores |-> m] :
               order \in Orderings(DOMAIN m) \cup {<<>>}} : m \in ScoreMaps}

ScoreMlPredictions ==
    {None, [t |-> "dict", keys |-> {"confidence"}, risk_score |-> 0, confidence |-> 90]}
    \cup {MlPrediction(m, 90) : m \in 0..MaxRiskScore}

----------------------------------------------------------------------------
(* Inputs of the stream specification *)

StreamTransactions ==
    EngineTransactions
    \cup {Transaction(Num(17), Absent, Dict((K_country :> Str(S_IR))))}

\* risk scores 0, 7.0, 7.5 and 10
StreamRiskScores == {0, 700, 750, MaxRiskScore}

\* what the POST to /predict comes to: a RiskPrediction, the 503 of a model
\* that is not ready, or an exception of the client
MlOutcomes ==
    {[kind |-> "response", status_code |-> 200, json |-> MlPrediction(m, 90),
      error |-> ""] : m \in StreamRiskScores}
    \cup {[kind |-> "response", status_code |-> 503, json |-> None, error |-> ""],
          [kind |-> "exception", status_code |-> 0, json |-> None,
           error |-> "TimeoutException"],
          [kind |-> "exception", status_code |-> 0, json |-> None,
           error |-> "ConnectError"]}

NoOutcome == [kind |-> "none", status_code |-> 0, json |-> None, error |-> ""]

\* stop has not been called
NoStop == [pc |-> "", passes |-> 0]

NoTransaction == [transaction_id |-> 0, transaction |-> EmptyDict]

----------------------------------------------------------------------------
(* Specification of the condition evaluator: one call of                   *)
(* _evaluate_condition on a drawn condition and transaction                *)

\* c_ret.err = "" when the call returned, else the exception it raised
EvaluateCondition ==
    /\ c_pc = "ready"
    /\ c_ret' = _evaluate_condition(c_condition, c_transaction)
    /\ c_pc' = "done"
    /\ UNCHANGED <<c_transaction, c_condition>>

NextCond ==
    EvaluateCondition /\ UNCHANGED <<ruleVars, engineVars, scoreVars, streamVars, producerVars>>

----------------------------------------------------------------------------
(* Specification of the rule evaluator: one call of _evaluate_rule         *)

\* r_ret.err = "" when the call returned, else the exception it raised
EvaluateRule ==
    /\ r_pc = "ready"
    /\ r_ret' = _evaluate_rule(r_rule_config, r_transaction)
    /\ r_pc' = "done"
    /\ UNCHANGED <<r_transaction, r_rule_config>>

NextRule ==
    EvaluateRule /\ UNCHANGED <<condVars, engineVars, scoreVars, streamVars, producerVars>>

----------------------------------------------------------------------------
(* Specification of the rule registry.  The methods of RulesEngine are      *)
(* coroutines; each action runs one of them from one await to the next,     *)
(* and another caller of the engine may run in between.                     *)

\* load_rules as StreamProcessor.start calls it, on the engine as constructed
LoadRules ==
    /\ loader_pc = "new"
    /\ \E order \in Orderings(DOMAIN Directories[disk].files) :
         \E reg \in {load_rules(Directories[disk], order,
                                [rules |-> rules, rule_stats |-> rule_stats])} :
            /\ rules' = reg.rules
            /\ rule_stats' = reg.rule_stats
            /\ generations' = generations \cup {reg.rules}
            /\ returned_stats' = Rebound(returned_stats, Directories[disk])
    /\ loader_pc' = "idle"
    /\ UNCHANGED <<disk, evals, now, calls, reloads, call_log>>

\* reload_rules, up to `await self.load_rules()`
ReloadClear ==
    /\ loader_pc = "idle"
    /\ reloads < MaxReloads
    /\ rules' = <<>>
    /\ loader_pc' = "cleared"
    /\ reloads' = reloads + 1
    /\ UNCHANGED <<rule_stats, disk, evals, generations, now, calls, call_log,
                   returned_stats>>

\* reload_rules, the awaited load_rules
ReloadLoad ==
    /\ loader_pc = "cleared"
    /\ \E order \in Orderings(DOMAIN Directories[disk].files) :
         \E reg \in {load_rules(Directories[disk], order,
                                [rules |-> rules, rule_stats |-> rule_stats])} :
            /\ rules' = reg.rules
            /\ rule_stats' = reg.rule_stats
            /\ generations' = generations \cup {reg.rules}
            /\ returned_stats' = Rebound(returned_stats, Directories[disk])
    /\ loader_pc' = "idle"
    /\ UNCHANGED <<disk, evals, now, calls, reloads, call_log>>

\* the operator edits the rules directory before the reload reads it (an edit
\* at any earlier moment leaves the same directory to the next load)
ChangeDisk ==
    /\ loader_pc = "cleared"
    /\ \E d \in 1..Len(Directories) : d # disk /\ disk' = d
    /\ UNCHANGED <<rules, rule_stats, loader_pc, evals, generations, now, calls,
                   reloads, call_log, returned_stats>>

\* evaluate_transaction, from the call to the first await (or to its end); the
\* callers are alike, and the call is made by the first one that is free
EvalBegin ==
    /\ loader_pc # "new"
    /\ calls < MaxCalls
    /\ \E e \in 1..MaxEvals, transaction \in EngineTransactions :
         /\ evals[e].pc \in {"idle", "returned", "raised"}
         /\ \A other \in 1..(e - 1) : evals[other].pc = "awaiting"
         /\ \E st \in {Advance([ev |-> NewEval(transaction, rules),
                                rule_stats |-> rule_stats], rules)} :
              /\ evals' = [evals EXCEPT ![e] = st.ev]
              /\ rule_stats' = st.rule_stats
              /\ returned_stats' = SeenThrough(returned_stats, st.rule_stats)
         /\ call_log' = Append(call_log, transaction)
    /\ calls' = calls + 1
    /\ UNCHANGED <<rules, disk, loader_pc, generations, now, reloads>>

\* the evaluation of one rule after `await self._evaluate_rule(...)` returns
\* or raises, and the loop up to the next await (or the end of the call)
EvalResume ==
    /\ \E e \in 1..MaxEvals :
         /\ evals[e].pc = "awaiting"
         /\ \E st \in {ResumeFromOutcome(evals[e],
                          RecordOutcome([triggered_rules |-> evals[e].triggered_rules,
                                         rule_scores |-> evals[e].rule_scores,
                                         rule_stats |-> rule_stats,
                                         now |-> now],
                                        evals[e].current.name,
                                        _evaluate_rule(evals[e].current.config,
                                                       evals[e].transaction)),
                          rules)} :
              /\ evals' = [evals EXCEPT ![e] = st.ev]
              /\ rule_stats' = st.rule_stats
              /\ returned_stats' = SeenThrough(returned_stats, st.rule_stats)
              /\ now' = st.now
    /\ UNCHANGED <<rules, disk, loader_pc, generations, calls, reloads, call_log>>

NextEngine ==
    \/ LoadRules /\ UNCHANGED <<condVars, ruleVars, scoreVars, streamVars, producerVars>>
    \/ ReloadClear /\ UNCHANGED <<condVars, ruleVars, scoreVars, streamVars, producerVars>>
    \/ ReloadLoad /\ UNCHANGED <<condVars, ruleVars, scoreVars, streamVars, producerVars>>
    \/ ChangeDisk /\ UNCHANGED <<condVars, ruleVars, scoreVars, streamVars, producerVars>>
    \/ EvalBegin /\ UNCHANGED <<condVars, ruleVars, scoreVars, streamVars, producerVars>>
    \/ EvalResume /\ UNCHANGED <<condVars, ruleVars, scoreVars, streamVars, producerVars>>

----------------------------------------------------------------------------
(* Specification of one registry generation under concurrent callers: the   *)
(* rules are loaded once, and up to MaxEvals calls of evaluate_transaction  *)
(* interleave at `await self._evaluate_rule(...)`.                          *)

NextConcurrent ==
    \/ LoadRules /\ UNCHANGED <<condVars, ruleVars, scoreVars, streamVars, producerVars>>
    \/ EvalBegin /\ UNCHANGED <<condVars, ruleVars, scoreVars, streamVars, producerVars>>
    \/ EvalResume /\ UNCHANGED <<condVars, ruleVars, scoreVars, streamVars, producerVars>>

----------------------------------------------------------------------------
(* Specification of the rule registry with one caller.  The awaits of       *)
(* engine.py wait for nothing, so in one event loop a call of               *)
(* evaluate_transaction or of reload_rules runs from its start to its end   *)
(* before anything else does: each call is one action.                      *)

\* reload_rules, on the directory as the operator has left it
ReloadRules ==
    /\ loader_pc = "idle"
    /\ reloads < MaxReloads
    /\ \E d \in 1..Len(Directories) :
         /\ disk' = d
         /\ \E order \in Orderings(DOMAIN Directories[d].files) :
              \E reg \in {load_rules(Directories[d], order,
                                     [rules |-> <<>>, rule_stats |-> rule_stats])} :
                 /\ rules' = reg.rules
                 /\ rule_stats' = reg.rule_stats
                 /\ generations' = generations \cup {reg.rules}
                 /\ returned_stats' = Rebound(returned_stats, Directories[d])
    /\ reloads' = reloads + 1
    /\ UNCHANGED <<loader_pc, evals, now, calls, call_log>>

\* evaluate_transaction; the call's locals at its end are kept in evals[1]
EvaluateTransaction ==
    /\ loader_pc = "idle"
    /\ calls < MaxCalls
    /\ \E transaction \in EngineTransactions :
         \E st \in {evaluate_transaction(transaction, rules, rule_stats, now)} :
            /\ evals' = [evals EXCEPT ![1] = st.ev]
            /\ rule_stats' = st.rule_stats
            /\ returned_stats' = SeenThrough(returned_stats, st.rule_stats)
            /\ now' = st.now
            /\ call_log' = Append(call_log, transaction)
    /\ calls' = calls + 1
    /\ UNCHANGED <<rules, disk, loader_pc, generations, reloads>>

NextSerial ==
    \/ LoadRules /\ UNCHANGED <<condVars, ruleVars, scoreVars, streamVars, producerVars>>
    \/ ReloadRules /\ UNCHANGED <<condVars, ruleVars, scoreVars, streamVars, producerVars>>
    \/ EvaluateTransaction /\ UNCHANGED <<condVars, ruleVars, scoreVars, streamVars, producerVars>>

----------------------------------------------------------------------------
(* Specification of the statistics handed out.  A caller of the engine asks *)
(* for the statistics between the calls of SpecSerial and may change the    *)
(* dict it was given.                                                       *)

\* the keys of a per-rule dict that hold counters
CounterKeys == {"triggers", "evaluations"}

\* get_rule_stats; the caller keeps what it returns
GetRuleStats ==
    /\ returned_stats' = get_rule_stats(rule_stats)
    /\ returned_stats' # returned_stats
    /\ UNCHANGED <<rules, rule_stats, disk, loader_pc, evals, generations, now,
                   calls, reloads, call_log>>

\* the caller resets a counter in the value it was given,
\* `returned[name][key] = 0`: an assignment into the per-rule dict, which is
\* the engine's own as long as the entry is shared
ResetReturnedCounter ==
    /\ \E name \in DOMAIN returned_stats, key \in CounterKeys :
         /\ returned_stats[name].stats[key] # 0
         /\ returned_stats' = [returned_stats EXCEPT ![name].stats[key] = 0]
         /\ rule_stats' = IF returned_stats[name].shared
                          THEN [rule_stats EXCEPT ![name][key] = 0]
                          ELSE rule_stats
    /\ UNCHANGED <<rules, disk, loader_pc, evals, generations, now, calls,
                   reloads, call_log>>

\* the caller drops an entry of the value it was given, `del returned[name]`:
\* a change of the outer dict, which is the caller's own
DeleteReturnedEntry ==
    /\ \E name \in DOMAIN returned_stats :
         returned_stats' = [n \in DOMAIN returned_stats \ {name} |-> returned_stats[n]]
    /\ UNCHANGED <<rules, rule_stats, disk, loader_pc, evals, generations, now,
                   calls, reloads, call_log>>

NextSnapshot ==
    \/ LoadRules /\ UNCHANGED <<condVars, ruleVars, scoreVars, streamVars, producerVars>>
    \/ ReloadRules /\ UNCHANGED <<condVars, ruleVars, scoreVars, streamVars, producerVars>>
    \/ EvaluateTransaction /\ UNCHANGED <<condVars, ruleVars, scoreVars, streamVars, producerVars>>
    \/ GetRuleStats /\ UNCHANGED <<condVars, ruleVars, scoreVars, streamVars, producerVars>>
    \/ ResetReturnedCounter /\ UNCHANGED <<condVars, ruleVars, scoreVars, streamVars, producerVars>>
    \/ DeleteReturnedEntry /\ UNCHANGED <<condVars, ruleVars, scoreVars, streamVars, producerVars>>

----------------------------------------------------------------------------
(* Specification of the final score: one call of                           *)
(* _calculate_final_risk_score                                             *)

CalculateFinalRiskScore ==
    /\ s_pc = "ready"
    /\ s_ret' = _calculate_final_risk_score(s_ml_prediction, s_rule_results)
    /\ s_pc' = "done"
    /\ UNCHANGED <<s_ml_prediction, s_rule_results>>

NextScore ==
    CalculateFinalRiskScore /\ UNCHANGED <<condVars, ruleVars, engineVars, streamVars, producerVars>>

----------------------------------------------------------------------------
(* Specification of the stream processor.  Each action runs the coroutine   *)
(* of _process_transactions from one await to the next.  A transaction on   *)
(* the queue is [transaction_id, transaction]; each is put there once, so   *)
(* the k-th pass of the loop handles transaction_id k.                      *)

\* StreamProcessor.start: the engine is made and loaded, the loop launched
Start ==
    /\ p_pc = "new"
    /\ \E order \in Orderings(DOMAIN Directories[disk].files) :
         \E reg \in {load_rules(Directories[disk], order,
                                [rules |-> rules, rule_stats |-> rule_stats])} :
            /\ rules' = reg.rules
            /\ rule_stats' = reg.rule_stats
            /\ returned_stats' = Rebound(returned_stats, Directories[disk])
    /\ loader_pc' = "idle"
    /\ running' = TRUE
    /\ p_pc' = "loop"
    /\ UNCHANGED <<disk, evals, generations, now, calls, reloads, call_log, queue,
                   processed_count, p_transaction, p_response, p_risk_prediction,
                   p_rule_results, p_final_risk_score, updates, alerts, added,
                   passes, mlog, stop_at>>

\* Stop ending the loop where it stands, as a cancellation of its task would
StopAbandoning ==
    /\ running
    /\ running' = FALSE
    /\ stop_at' = [pc |-> p_pc, passes |-> passes]
    /\ p_pc' = IF p_pc \in {"ml", "rules", "update", "alert"} THEN "exited" ELSE p_pc
    /\ UNCHANGED <<engineVars, queue, processed_count, p_transaction,
                   p_response, p_risk_prediction, p_rule_results,
                   p_final_risk_score, updates, alerts, added, passes, mlog>>

\* StreamProcessor.stop
Stop ==
    /\ running
    /\ running' = FALSE
    /\ stop_at' = [pc |-> p_pc, passes |-> passes]
    /\ UNCHANGED <<engineVars, queue, processed_count, p_pc, p_transaction,
                   p_response, p_risk_prediction, p_rule_results,
                   p_final_risk_score, updates, alerts, added, passes, mlog>>

\* consumer.add_transaction on the processor's consumer; put waits while the
\* queue is full
AddTransaction ==
    /\ added < MaxTransactions
    /\ Len(queue) < QueueSize
    /\ \E transaction \in StreamTransactions :
         queue' = Append(queue, [transaction_id |-> added + 1,
                                 transaction |-> transaction])
    /\ added' = added + 1
    /\ UNCHANGED <<engineVars, running, processed_count, p_pc, p_transaction,
                   p_response, p_risk_prediction, p_rule_results,
                   p_final_risk_score, updates, alerts, passes, mlog, stop_at>>

\* `while self.running:`
LoopTest ==
    /\ p_pc = "loop"
    /\ p_pc' = IF running THEN "get" ELSE "exited"
    /\ UNCHANGED <<engineVars, queue, running, processed_count, p_transaction,
                   p_response, p_risk_prediction, p_rule_results,
                   p_final_risk_score, updates, alerts, added, passes, mlog, stop_at>>

\* consumer.get_transaction: the head of the queue, or None after a second
\* on an empty queue, and then the loop sleeps and goes round
GetTransaction ==
    /\ p_pc = "get"
    /\ IF queue # <<>>
       THEN /\ p_transaction' = Head(queue)
            /\ queue' = Tail(queue)
            /\ passes' = passes + 1
            /\ p_pc' = "ml"
       ELSE /\ p_pc' = "loop"
            /\ UNCHANGED <<p_transaction, queue, passes>>
    /\ UNCHANGED <<engineVars, running, processed_count, p_response,
                   p_risk_prediction, p_rule_results, p_final_risk_score,
                   updates, alerts, added, mlog, stop_at>>

\* MlRespond repeating the POST when the ML service gave no prediction
MlRespondRetrying ==
    /\ p_pc = "ml"
    /\ \E outcome \in MlOutcomes :
         /\ p_response' = outcome
         /\ mlog' = Append(mlog, outcome)
         /\ \E r \in {_get_ml_prediction(outcome)} :
              /\ p_risk_prediction' = r.ret
              /\ p_pc' = IF r.ret = None THEN "ml" ELSE "rules"
    /\ UNCHANGED <<engineVars, queue, running, processed_count, p_transaction,
                   p_rule_results, p_final_risk_score, updates, alerts, added,
                   passes, stop_at>>

\* MlRespond with the scorer's failure leaving _process_transactions
MlRespondCrashing ==
    /\ p_pc = "ml"
    /\ \E outcome \in MlOutcomes :
         /\ p_response' = outcome
         /\ mlog' = Append(mlog, outcome)
         /\ \E r \in {_get_ml_prediction(outcome)} :
              IF r.ret # None
              THEN /\ p_risk_prediction' = r.ret
                   /\ p_pc' = "rules"
              ELSE /\ p_pc' = "exited"
                   /\ UNCHANGED p_risk_prediction
    /\ UNCHANGED <<engineVars, queue, running, processed_count, p_transaction,
                   p_rule_results, p_final_risk_score, updates, alerts, added,
                   passes, stop_at>>

\* Step 1, when the POST to the ML service ends.  An exception that leaves a
\* step is logged by _process_single_transaction, which returns, and the loop
\* counts the transaction.
MlRespond ==
    /\ p_pc = "ml"
    /\ \E outcome \in MlOutcomes :
         /\ p_response' = outcome
         /\ mlog' = Append(mlog, outcome)
         /\ \E r \in {_get_ml_prediction(outcome)} :
              IF r.err = ""
              THEN /\ p_risk_prediction' = r.ret
                   /\ p_pc' = "rules"
                   /\ UNCHANGED processed_count
              ELSE /\ p_pc' = "loop"
                   /\ processed_count' = processed_count + 1
                   /\ UNCHANGED p_risk_prediction
    /\ UNCHANGED <<engineVars, queue, running, p_transaction, p_rule_results,
                   p_final_risk_score, updates, alerts, added, passes, stop_at>>

\* Steps 2 and 3: the rules, then the final score
ApplyRules ==
    /\ p_pc = "rules"
    /\ \E st \in {evaluate_transaction(p_transaction.transaction, rules,
                                       rule_stats, now)} :
         /\ rule_stats' = st.rule_stats
         /\ returned_stats' = SeenThrough(returned_stats, st.rule_stats)
         /\ now' = st.now
         /\ p_rule_results' = ApplyRulesResult(st.ev)
         /\ p_final_risk_score' =
                _calculate_final_risk_score(p_risk_prediction, ApplyRulesResult(st.ev))
    /\ p_pc' = "update"
    /\ UNCHANGED <<rules, disk, loader_pc, evals, generations, calls, reloads,
                   call_log,
                   queue, running, processed_count, p_transaction, p_response,
                   p_risk_prediction, updates, alerts, added, passes, mlog, stop_at>>

\* Step 4, and the end of the pass when the score is under 6.0
UpdateTransaction ==
    /\ p_pc = "update"
    /\ updates' = Append(updates,
                         _update_transaction(p_transaction.transaction_id,
                                             p_risk_prediction, p_rule_results,
                                             p_final_risk_score))
    /\ IF p_final_risk_score >= 600
       THEN p_pc' = "alert" /\ UNCHANGED processed_count
       ELSE p_pc' = "loop" /\ processed_count' = processed_count + 1
    /\ UNCHANGED <<engineVars, queue, running, p_transaction, p_response,
                   p_risk_prediction, p_rule_results, p_final_risk_score, alerts,
                   added, passes, mlog, stop_at>>

\* Step 5, and the end of the pass
CreateAlert ==
    /\ p_pc = "alert"
    /\ alerts' = Append(alerts,
                        _create_alert(p_transaction.transaction_id,
                                      p_risk_prediction, p_rule_results,
                                      p_final_risk_score))
    /\ p_pc' = "loop"
    /\ processed_count' = processed_count + 1
    /\ UNCHANGED <<engineVars, queue, running, p_transaction, p_response,
                   p_risk_prediction, p_rule_results, p_final_risk_score, updates,
                   added, passes, mlog, stop_at>>

NextStream ==
    \/ Start /\ UNCHANGED <<condVars, ruleVars, scoreVars, producerVars>>
    \/ Stop /\ UNCHANGED <<condVars, ruleVars, scoreVars, producerVars>>
    \/ AddTransaction /\ UNCHANGED <<condVars, ruleVars, scoreVars, producerVars>>
    \/ LoopTest /\ UNCHANGED <<condVars, ruleVars, scoreVars, producerVars>>
    \/ GetTransaction /\ UNCHANGED <<condVars, ruleVars, scoreVars, producerVars>>
    \/ MlRespond /\ UNCHANGED <<condVars, ruleVars, scoreVars, producerVars>>
    \/ ApplyRules /\ UNCHANGED <<condVars, ruleVars, scoreVars, producerVars>>
    \/ UpdateTransaction /\ UNCHANGED <<condVars, ruleVars, scoreVars, producerVars>>
    \/ CreateAlert /\ UNCHANGED <<condVars, ruleVars, scoreVars, producerVars>>

----------------------------------------------------------------------------
(* Specification of the producer: stream/producer.py feeding the module's   *)
(* transaction_consumer (consumer.py:84) through add_transaction.           *)

\* TransactionProducer.start; _initialize_data touches nothing of the model
ProducerStart ==
    /\ pr_pc = "new"
    /\ pr_running' = TRUE
    /\ pr_pc' = "loop"
    /\ UNCHANGED <<transaction_queue, queue_size, consumer_processed_count,
                   consumer_log, pr_batch, generated>>

\* TransactionProducer.stop
ProducerStop ==
    /\ pr_running
    /\ pr_running' = FALSE
    /\ UNCHANGED <<transaction_queue, queue_size, consumer_processed_count,
                   consumer_log, pr_pc, pr_batch, generated>>

\* `while self.running:` and the draw of batch_size
ProducerLoopTest ==
    /\ pr_pc = "loop"
    /\ IF pr_running
       THEN \E batch_size \in 1..MaxBatch :
               /\ pr_batch' = batch_size
               /\ pr_pc' = "batch"
       ELSE /\ pr_pc' = "exited"
            /\ UNCHANGED pr_batch
    /\ UNCHANGED <<transaction_queue, queue_size, consumer_processed_count,
                   consumer_log, pr_running, generated>>

\* `for _ in range(batch_size):` and _generate_transaction; add_transaction is
\* entered with the transaction, numbered in the order of generation
GenerateTransaction ==
    /\ pr_pc = "batch"
    /\ IF pr_batch = 0
       THEN /\ pr_pc' = "sleep"
            /\ UNCHANGED <<pr_batch, generated>>
       ELSE /\ generated < MaxGenerated
            /\ generated' = generated + 1
            /\ pr_batch' = pr_batch - 1
            /\ pr_pc' = "put"
    /\ UNCHANGED <<transaction_queue, queue_size, consumer_processed_count,
                   consumer_log, pr_running>>

\* add_transaction, lines 56-57: `await self.transaction_queue.put(...)` waits
\* while the queue is full (asyncio.Queue.put never raises QueueFull), then the
\* item is queued, the debug line logged, and the call returns
Put ==
    /\ pr_pc = "put"
    /\ Len(transaction_queue) < queue_size
    /\ transaction_queue' = Append(transaction_queue, generated)
    /\ consumer_log' = Append(consumer_log, "Transaction queued")
    /\ pr_pc' = "batch"
    /\ UNCHANGED <<queue_size, consumer_processed_count, pr_running, pr_batch,
                   generated>>

\* `await asyncio.sleep(random.uniform(2, 10))`
ProducerSleep ==
    /\ pr_pc = "sleep"
    /\ pr_pc' = "loop"
    /\ UNCHANGED <<transaction_queue, queue_size, consumer_processed_count,
                   consumer_log, pr_running, pr_batch, generated>>

\* a call of transaction_consumer.get_transaction that finds an item
QueueGet ==
    /\ transaction_queue # <<>>
    /\ transaction_queue' = Tail(transaction_queue)
    /\ consumer_processed_count' = consumer_processed_count + 1
    /\ UNCHANGED <<queue_size, consumer_log, pr_running, pr_pc, pr_batch,
                   generated>>

\* the steps of the producer's own task
ProducerTask ==
    /\ \/ ProducerLoopTest
       \/ GenerateTransaction
       \/ Put
       \/ ProducerSleep
    /\ UNCHANGED <<condVars, ruleVars, engineVars, scoreVars, streamVars>>

NextProducer ==
    \/ ProducerStart /\ UNCHANGED <<condVars, ruleVars, engineVars, scoreVars, streamVars>>
    \/ ProducerStop /\ UNCHANGED <<condVars, ruleVars, engineVars, scoreVars, streamVars>>
    \/ ProducerLoopTest /\ UNCHANGED <<condVars, ruleVars, engineVars, scoreVars, streamVars>>
    \/ GenerateTransaction /\ UNCHANGED <<condVars, ruleVars, engineVars, scoreVars, streamVars>>
    \/ Put /\ UNCHANGED <<condVars, ruleVars, engineVars, scoreVars, streamVars>>
    \/ ProducerSleep /\ UNCHANGED <<condVars, ruleVars, engineVars, scoreVars, streamVars>>
    \/ QueueGet /\ UNCHANGED <<condVars, ruleVars, engineVars, scoreVars, streamVars>>

----------------------------------------------------------------------------
(* Specification of the stream service as StreamProcessor assembles it       *)
(* (main.py:41-73): the processing loop reads self.consumer, its own         *)
(* TransactionConsumer(), and the producer writes to the module's            *)
(* transaction_consumer.  Nothing in the repository puts a transaction on    *)
(* the first queue or takes one off the second.                              *)

\* the producer's task, created by StreamProcessor.start
PipelineProducerStart == p_pc # "new" /\ ProducerStart

\* StreamProcessor.stop with the producer.stop() it awaits
PipelineStop ==
    /\ Stop
    /\ pr_running' = FALSE
    /\ UNCHANGED <<transaction_queue, queue_size, consumer_processed_count,
                   consumer_log, pr_pc, pr_batch, generated>>

\* the steps of the task running _process_transactions on a queue that
\* stays empty
PipelineProcessorTask ==
    /\ LoopTest \/ GetTransaction
    /\ UNCHANGED <<condVars, ruleVars, scoreVars, producerVars>>

NextPipeline ==
    \/ Start /\ UNCHANGED <<condVars, ruleVars, scoreVars, producerVars>>
    \/ PipelineStop /\ UNCHANGED <<condVars, ruleVars, scoreVars>>
    \/ LoopTest /\ UNCHANGED <<condVars, ruleVars, scoreVars, producerVars>>
    \/ GetTransaction /\ UNCHANGED <<condVars, ruleVars, scoreVars, producerVars>>
    \/ PipelineProducerStart /\ UNCHANGED <<condVars, ruleVars, engineVars, scoreVars, streamVars>>
    \/ ProducerLoopTest /\ UNCHANGED <<condVars, ruleVars, engineVars, scoreVars, streamVars>>
    \/ GenerateTransaction /\ UNCHANGED <<condVars, ruleVars, engineVars, scoreVars, streamVars>>
    \/ Put /\ UNCHANGED <<condVars, ruleVars, engineVars, scoreVars, streamVars>>
    \/ ProducerSleep /\ UNCHANGED <<condVars, ruleVars, engineVars, scoreVars, streamVars>>

----------------------------------------------------------------------------
(* Specifications *)

IdleTransaction == EmptyDict
IdleCondition == [field |-> None, operator |-> "", value |-> None]
IdleRuleConfig == RuleConfig(<<>>, "", Absent, "absent")
IdleEvals == [e \in 1..MaxEvals |-> IdleEval]

InitSpecCond ==
    /\ c_transaction \in CondTransactions
    /\ c_condition \in CondConditions
    /\ c_pc = "ready"
    /\ c_ret = Ok(FALSE)
    /\ r_transaction = IdleTransaction
    /\ r_rule_config = IdleRuleConfig
    /\ r_pc = "ready"
    /\ r_ret = RuleReturn(FALSE, 0)
    /\ rules = <<>>
    /\ rule_stats = EmptyMap
    /\ disk = 1
    /\ loader_pc = "new"
    /\ evals = IdleEvals
    /\ generations = {}
    /\ now = 0
    /\ calls = 0
    /\ reloads = 0
    /\ call_log = <<>>
    /\ returned_stats = EmptyMap
    /\ s_ml_prediction = None
    /\ s_rule_results = NoRuleResults
    /\ s_pc = "ready"
    /\ s_ret = 0
    /\ queue = <<>>
    /\ running = FALSE
    /\ processed_count = 0
    /\ p_pc = "new"
    /\ p_transaction = NoTransaction
    /\ p_response = NoOutcome
    /\ p_risk_prediction = None
    /\ p_rule_results = NoRuleResults
    /\ p_final_risk_score = 0
    /\ updates = <<>>
    /\ alerts = <<>>
    /\ added = 0
    /\ passes = 0
    /\ mlog = <<>>
    /\ stop_at = NoStop
    /\ transaction_queue = <<>>
    /\ queue_size = QueueSize
    /\ consumer_processed_count = 0
    /\ consumer_log = <<>>
    /\ pr_running = FALSE
    /\ pr_pc = "new"
    /\ pr_batch = 0
    /\ generated = 0

InitSpecRule ==
    /\ c_transaction = IdleTransaction
    /\ c_condition = IdleCondition
    /\ c_pc = "ready"
    /\ c_ret = Ok(FALSE)
    /\ r_transaction \in RuleTransactions
    /\ r_rule_config \in RuleConfigs
    /\ r_pc = "ready"
    /\ r_ret = RuleReturn(FALSE, 0)
    /\ rules = <<>>
    /\ rule_stats = EmptyMap
    /\ disk = 1
    /\ loader_pc = "new"
    /\ evals = IdleEvals
    /\ generations = {}
    /\ now = 0
    /\ calls = 0
    /\ reloads = 0
    /\ call_log = <<>>
    /\ returned_stats = EmptyMap
    /\ s_ml_prediction = None
    /\ s_rule_results = NoRuleResults
    /\ s_pc = "ready"
    /\ s_ret = 0
    /\ queue = <<>>
    /\ running = FALSE
    /\ processed_count = 0
    /\ p_pc = "new"
    /\ p_transaction = NoTransaction
    /\ p_response = NoOutcome
    /\ p_risk_prediction = None
    /\ p_rule_results = NoRuleResults
    /\ p_final_risk_score = 0
    /\ updates = <<>>
    /\ alerts = <<>>
    /\ added = 0
    /\ passes = 0
    /\ mlog = <<>>
    /\ stop_at = NoStop
    /\ transaction_queue = <<>>
    /\ queue_size = QueueSize
    /\ consumer_processed_count = 0
    /\ consumer_log = <<>>
    /\ pr_running = FALSE
    /\ pr_pc = "new"
    /\ pr_batch = 0
    /\ generated = 0

\* the engine as constructed: no rules, no statistics
InitSpecEngine ==
    /\ c_transaction = IdleTransaction
    /\ c_condition = IdleCondition
    /\ c_pc = "ready"
    /\ c_ret = Ok(FALSE)
    /\ r_transaction = IdleTransaction
    /\ r_rule_config = IdleRuleConfig
    /\ r_pc = "ready"
    /\ r_ret = RuleReturn(FALSE, 0)
    /\ rules = <<>>
    /\ rule_stats = EmptyMap
    /\ disk \in 1..Len(Directories)
    /\ loader_pc = "new"
    /\ evals = IdleEvals
    /\ generations = {}
    /\ now = 0
    /\ calls = 0
    /\ reloads = 0
    /\ call_log = <<>>
    /\ returned_stats = EmptyMap
    /\ s_ml_prediction = None
    /\ s_rule_results = NoRuleResults
    /\ s_pc = "ready"
    /\ s_ret = 0
    /\ queue = <<>>
    /\ running = FALSE
    /\ processed_count = 0
    /\ p_pc = "new"
    /\ p_transaction = NoTransaction
    /\ p_response = NoOutcome
    /\ p_risk_prediction = None
    /\ p_rule_results = NoRuleResults
    /\ p_final_risk_score = 0
    /\ updates = <<>>
    /\ alerts = <<>>
    /\ added = 0
    /\ passes = 0
    /\ mlog = <<>>
    /\ stop_at = NoStop
    /\ transaction_queue = <<>>
    /\ queue_size = QueueSize
    /\ consumer_processed_count = 0
    /\ consumer_log = <<>>
    /\ pr_running = FALSE
    /\ pr_pc = "new"
    /\ pr_batch = 0
    /\ generated = 0

InitSpecScore ==
    /\ c_transaction = IdleTransaction
    /\ c_condition = IdleCondition
    /\ c_pc = "ready"
    /\ c_ret = Ok(FALSE)
    /\ r_transaction = IdleTransaction
    /\ r_rule_config = IdleRuleConfig
    /\ r_pc = "ready"
    /\ r_ret = RuleReturn(FALSE, 0)
    /\ rules = <<>>
    /\ rule_stats = EmptyMap
    /\ disk = 1
    /\ loader_pc = "new"
    /\ evals = IdleEvals
    /\ generations = {}
    /\ now = 0
    /\ calls = 0
    /\ reloads = 0
    /\ call_log = <<>>
    /\ returned_stats = EmptyMap
    /\ s_ml_prediction \in ScoreMlPredictions
    /\ s_rule_results \in ScoreRuleResults
    /\ s_pc = "ready"
    /\ s_ret = 0
    /\ queue = <<>>
    /\ running = FALSE
    /\ processed_count = 0
    /\ p_pc = "new"
    /\ p_transaction = NoTransaction
    /\ p_response = NoOutcome
    /\ p_risk_prediction = None
    /\ p_rule_results = NoRuleResults
    /\ p_final_risk_score = 0
    /\ updates = <<>>
    /\ alerts = <<>>
    /\ added = 0
    /\ passes = 0
    /\ mlog = <<>>
    /\ stop_at = NoStop
    /\ transaction_queue = <<>>
    /\ queue_size = QueueSize
    /\ consumer_processed_count = 0
    /\ consumer_log = <<>>
    /\ pr_running = FALSE
    /\ pr_pc = "new"
    /\ pr_batch = 0
    /\ generated = 0

\* the processor as constructed: not running, no engine, an empty queue
InitSpecStream ==
    /\ c_transaction = IdleTransaction
    /\ c_condition = IdleCondition
    /\ c_pc = "ready"
    /\ c_ret = Ok(FALSE)
    /\ r_transaction = IdleTransaction
    /\ r_rule_config = IdleRuleConfig
    /\ r_pc = "ready"
    /\ r_ret = RuleReturn(FALSE, 0)
    /\ rules = <<>>
    /\ rule_stats = EmptyMap
    /\ disk \in 1..Len(Directories)
    /\ loader_pc = "new"
    /\ evals = IdleEvals
    /\ generations = {}
    /\ now = 0
    /\ calls = 0
    /\ reloads = 0
    /\ call_log = <<>>
    /\ returned_stats = EmptyMap
    /\ s_ml_prediction = None
    /\ s_rule_results = NoRuleResults
    /\ s_pc = "ready"
    /\ s_ret = 0
    /\ queue = <<>>
    /\ running = FALSE
    /\ processed_count = 0
    /\ p_pc = "new"
    /\ p_transaction = NoTransaction
    /\ p_response = NoOutcome
    /\ p_risk_prediction = None
    /\ p_rule_results = NoRuleResults
    /\ p_final_risk_score = 0
    /\ updates = <<>>
    /\ alerts = <<>>
    /\ added = 0
    /\ passes = 0
    /\ mlog = <<>>
    /\ stop_at = NoStop
    /\ transaction_queue = <<>>
    /\ queue_size = QueueSize
    /\ consumer_processed_count = 0
    /\ consumer_log = <<>>
    /\ pr_running = FALSE
    /\ pr_pc = "new"
    /\ pr_batch = 0
    /\ generated = 0

\* TransactionConsumer(queue_size) and TransactionProducer() as constructed
InitSpecProducer ==
    /\ c_transaction = IdleTransaction
    /\ c_condition = IdleCondition
    /\ c_pc = "ready"
    /\ c_ret = Ok(FALSE)
    /\ r_transaction = IdleTransaction
    /\ r_rule_config = IdleRuleConfig
    /\ r_pc = "ready"
    /\ r_ret = RuleReturn(FALSE, 0)
    /\ rules = <<>>
    /\ rule_stats = EmptyMap
    /\ disk = 1
    /\ loader_pc = "new"
    /\ evals = IdleEvals
    /\ generations = {}
    /\ now = 0
    /\ calls = 0
    /\ reloads = 0
    /\ call_log = <<>>
    /\ returned_stats = EmptyMap
    /\ s_ml_prediction = None
    /\ s_rule_results = NoRuleResults
    /\ s_pc = "ready"
    /\ s_ret = 0
    /\ queue = <<>>
    /\ running = FALSE
    /\ processed_count = 0
    /\ p_pc = "new"
    /\ p_transaction = NoTransaction
    /\ p_response = NoOutcome
    /\ p_risk_prediction = None
    /\ p_rule_results = NoRuleResults
    /\ p_final_risk_score = 0
    /\ updates = <<>>
    /\ alerts = <<>>
    /\ added = 0
    /\ passes = 0
    /\ mlog = <<>>
    /\ stop_at = NoStop
    /\ transaction_queue = <<>>
    /\ queue_size \in 1..MaxQueueSize
    /\ consumer_processed_count = 0
    /\ consumer_log = <<>>
    /\ pr_running = FALSE
    /\ pr_pc = "new"
    /\ pr_batch = 0
    /\ generated = 0

SpecCond == InitSpecCond /\ [][NextCond]_vars

SpecRule == InitSpecRule /\ [][NextRule]_vars

SpecEngine == InitSpecEngine /\ [][NextEngine]_vars

SpecSerial == InitSpecEngine /\ [][NextSerial]_vars

SpecConcurrent == InitSpecEngine /\ [][NextConcurrent]_vars

SpecSnapshot == InitSpecEngine /\ [][NextSnapshot]_vars

SpecScore == InitSpecScore /\ [][NextScore]_vars

SpecStream == InitSpecStream /\ [][NextStream]_vars

\* the event loop runs both tasks whenever they can take a step
SpecPipeline ==
    /\ InitSpecStream
    /\ [][NextPipeline]_vars
    /\ WF_vars(PipelineProcessorTask)
    /\ WF_vars(ProducerTask)

\* the event loop runs the producer's task whenever it can take a step; nothing
\* obliges anyone to take items off the queue
SpecProducer == InitSpecProducer /\ [][NextProducer]_vars /\ WF_vars(ProducerTask)

----------------------------------------------------------------------------
(* Properties of the rule registry (SpecEngine) *)

Disabled(config) == config.t = "dict" /\ ~Get(config, "enabled", TRUE)

TriggeredNames(e) ==
    {evals[e].triggered_rules[i] : i \in 1..Len(evals[e].triggered_rules)}

\* C1: evaluate_transaction evaluates only enabled rules: a rule whose
\* configuration has enabled=false is never handed to _evaluate_rule (so its
\* evaluations and triggers counters do not move), and never appears in
\* triggered_rules or rule_scores of the call that iterated it.
C1_OnlyEnabledRulesEvaluated ==
    \A e \in 1..MaxEvals :
        /\ evals[e].pc = "awaiting" => ~Disabled(evals[e].current.config)
        /\ \A i \in 1..Len(evals[e].seen) :
              Disabled(evals[e].seen[i].config)
              => /\ evals[e].seen[i].name \notin TriggeredNames(e)
                 /\ evals[e].seen[i].name \notin DOMAIN evals[e].rule_scores

\* C2: an evaluate_transaction interleaved with reload_rules never crashes and
\* never observes a torn rule set: the rules a finished call has iterated are
\* exactly one complete rule set, as some load left it.
C2_ReloadNeverTearsEvaluation ==
    \A e \in 1..MaxEvals :
        /\ evals[e].pc # "raised"
        /\ evals[e].pc = "returned" => evals[e].seen \in generations

----------------------------------------------------------------------------
(* Properties of the condition evaluator (SpecCond) *)

\* a dotted path resolves when every segment is a key of the mapping reached
RECURSIVE Resolves(_, _)
Resolves(value, parts) ==
    \/ parts = <<>>
    \/ /\ value.t = "dict"
       /\ Head(parts) \in DOMAIN value.d
       /\ Resolves(value.d[Head(parts)], Tail(parts))

NegatedOperators == {"not_equals", "not_in", "not_contains"}

\* C8: a condition, with any operator, whose dotted field path cannot be
\* resolved against the transaction evaluates to false and raises nothing.
C8_UnresolvedFieldIsFalse ==
    (/\ c_pc = "done"
     /\ c_condition.field.t = "str"
     /\ ~Resolves(c_transaction, Split(c_condition.field.s)))
    => c_ret = Ok(FALSE)

\* not_equals on location.city, location being a mapping without a city
C8_Witness ==
    /\ c_pc = "done"
    /\ c_condition.operator \in NegatedOperators
    /\ c_condition.field = Str(K_location \o <<".">> \o K_city)
    /\ K_location \in DOMAIN c_transaction.d
    /\ c_transaction.d[K_location].t = "dict"
    /\ c_ret = Ok(FALSE)

\* the condition is near_threshold on an amount a with threshold T, both numbers
NearThresholdCase(a, T) ==
    /\ c_pc = "done"
    /\ c_condition.operator = "near_threshold"
    /\ c_condition.field = Str(K_amount)
    /\ K_amount \in DOMAIN c_transaction.d
    /\ c_transaction.d[K_amount] = Num(a)
    /\ c_condition.value = Num(T)

\* C10: near_threshold is true iff 0.85*T <= amount < T; it is false at
\* amount = T and false when amount < 0.85*T.
C10_NearThresholdBand ==
    \A a \in 0..MaxAmount, T \in 0..MaxAmount :
        NearThresholdCase(a, T)
        => /\ c_ret.err = ""
           /\ c_ret.ret <=> (85 * T <= 100 * a /\ a < T)
           /\ a = T => ~c_ret.ret
           /\ 100 * a < 85 * T => ~c_ret.ret

\* the lowest amount of the band of 20, and the answer is true
C10_Witness == NearThresholdCase(17, 20) /\ c_ret = Ok(TRUE)

----------------------------------------------------------------------------
(* Properties of the rule evaluator (SpecRule) *)

\* the operator of the condition raises on the value the field resolves to
ConditionFails(condition, transaction) ==
    LET field_value == _get_field_value(transaction, condition.field.s)
    IN  /\ field_value # None
        /\ OperatorBody(field_value, condition.operator, condition.value).err # ""

\* C9: a condition whose evaluation fails (a type-coercion failure, a malformed
\* regex pattern) counts as false and the failure does not leave the condition:
\* an OR rule of one failing and one true condition triggers with score
\* base_score * 1/2.
C9_FailingConditionIsFalse ==
    (/\ r_pc = "done"
     /\ r_rule_config.logic = "OR"
     /\ Len(r_rule_config.conditions) = 2
     /\ \E i, j \in 1..2 :
           /\ i # j
           /\ ConditionFails(r_rule_config.conditions[i], r_transaction)
           /\ ~ConditionFails(r_rule_config.conditions[j], r_transaction)
           /\ _evaluate_condition(r_rule_config.conditions[j], r_transaction)
              = Ok(TRUE))
    => r_ret = RuleReturn(TRUE, Get(r_rule_config, "score", Num(DefaultScore)).n
                                * (ScoreUnit \div 2))

----------------------------------------------------------------------------
(* Properties of the final score (SpecScore) *)

Abs(x) == IF x < 0 THEN -x ELSE x

\* x is a hundredth nearest to the fraction n / d of hundredths
NearestHundredth(x, n, d) == 2 * Abs(x * d - n) <= d

MlScoreOf(ml_prediction) ==
    IF ml_prediction = None THEN 0
    ELSE IF "risk_score" \in ml_prediction.keys THEN ml_prediction.risk_score
    ELSE 0

MaxRuleScoreOf(rule_results) ==
    IF DOMAIN rule_results.rule_scores = {} THEN 0
    ELSE CHOOSE x \in {rule_results.rule_scores[k] : k \in DOMAIN rule_results.rule_scores} :
             \A k \in DOMAIN rule_results.rule_scores : rule_results.rule_scores[k] <= x

\* 0.6*ml + 0.4*max*10 + 1.0 and 0.8*ml + 0.2*max*10, in hundredths, times
\* 10 * ScoreUnit
BoostedFormula(ml, max) == 6 * ml * ScoreUnit + 40 * max + 1000 * ScoreUnit
PlainFormula(ml, max) == 8 * ml * ScoreUnit + 20 * max

\* C3: with triggered rules the final score is min(10.0, 0.6*mlScore +
\* 0.4*maxRuleScore*10 + 1.0), without it is 0.8*mlScore + 0.2*maxRuleScore*10,
\* rounded to two decimals; mlScore 7.0 without triggers gives 5.6, mlScore
\* 7.0 with maxRuleScore 0.4 and triggers gives 6.8.
C3_FinalScoreFormula ==
    s_pc = "done" =>
        LET ml == MlScoreOf(s_ml_prediction)
            max == MaxRuleScoreOf(s_rule_results)
            triggered == s_rule_results.triggered_rules # <<>>
        IN  /\ triggered /\ BoostedFormula(ml, max) <= 10000 * ScoreUnit
               => NearestHundredth(s_ret, BoostedFormula(ml, max), 10 * ScoreUnit)
            /\ triggered /\ BoostedFormula(ml, max) > 10000 * ScoreUnit
               => s_ret = 1000
            /\ ~triggered
               => NearestHundredth(s_ret, PlainFormula(ml, max), 10 * ScoreUnit)
            /\ ~triggered /\ ml = 700 /\ max = 0 => s_ret = 560
            /\ triggered /\ ml = 700 /\ max = 40 * ScoreUnit => s_ret = 680

\* mlScore 7.0, a triggered rule, maxRuleScore 0.4: 6.8
C3_Witness ==
    /\ s_pc = "done"
    /\ s_ml_prediction = MlPrediction(700, 90)
    /\ s_rule_results.triggered_rules # <<>>
    /\ MaxRuleScoreOf(s_rule_results) = 40 * ScoreUnit
    /\ s_ret = 680

----------------------------------------------------------------------------
(* Properties of the stream processor (SpecStream) *)

\* the k-th pass has come to its end
Finished(k) == k < passes \/ (k = passes /\ p_pc \in {"loop", "get", "exited"})

UpdatesOf(k) == {i \in 1..Len(updates) : updates[i].transaction_id = k}

AlertsOf(k) == {i \in 1..Len(alerts) : alerts[i].transaction_id = k}

\* C4: the disposition recorded for a transaction is flagged iff the final
\* score is >= 6.0 and clear otherwise; an alert is created iff the
\* disposition is flagged, never more than one in a pass, and never for a
\* clear transaction.
C4_DispositionAndAlert ==
    /\ \A i \in 1..Len(updates) :
          /\ updates[i].status \in {"flagged", "clear"}
          /\ updates[i].status = "flagged" <=> updates[i].risk_score >= 600
    /\ \A k \in 1..passes :
          /\ Cardinality(AlertsOf(k)) <= 1
          /\ Cardinality(UpdatesOf(k)) <= 1
          /\ AlertsOf(k) # {}
             => \E i \in UpdatesOf(k) : updates[i].status = "flagged"
          /\ Finished(k)
             => \A i \in UpdatesOf(k) :
                   updates[i].status = "flagged" <=> AlertsOf(k) # {}

\* a pass that ended flagged at exactly 6.0 with its alert, after one that
\* ended clear without
C4_Witness ==
    /\ passes = 2
    /\ Finished(2)
    /\ \E i \in UpdatesOf(1) : updates[i].status = "clear"
    /\ AlertsOf(1) = {}
    /\ \E i \in UpdatesOf(2) :
          updates[i].status = "flagged" /\ updates[i].risk_score = 600
    /\ AlertsOf(2) # {}

\* C5: an alert is critical iff its final score is >= 8.0 and high otherwise;
\* no alert is medium.
C5_AlertSeverity ==
    \A i \in 1..Len(alerts) :
        /\ alerts[i].severity \in {"critical", "high"}
        /\ alerts[i].severity = "critical" <=> alerts[i].risk_score >= 800

\* a critical alert at exactly 8.0 and a high one
C5_Witness ==
    /\ \E i \in 1..Len(alerts) :
          alerts[i].severity = "critical" /\ alerts[i].risk_score = 800
    /\ \E i \in 1..Len(alerts) : alerts[i].severity = "high"

NamesOf(list) == {list[i] : i \in 1..Len(list)}

\* C6: the alert type is fixed by which names are among the triggered rules:
\* structuring, else velocity, else geographic, else anomaly, whatever their
\* order in the list; a list holding geographic and structuring gives
\* structuring.
C6_AlertTypePriority ==
    \A i \in 1..Len(alerts) :
        LET names == NamesOf(alerts[i].triggered_rules)
        IN  /\ "structuring" \in names => alerts[i].alert_type = "structuring"
            /\ "structuring" \notin names /\ "velocity" \in names
               => alerts[i].alert_type = "velocity"
            /\ names \cap {"structuring", "velocity"} = {} /\ "geographic" \in names
               => alerts[i].alert_type = "geographic"
            /\ names \cap {"structuring", "velocity", "geographic"} = {}
               => alerts[i].alert_type = "anomaly"

\* geographic triggered before structuring, and the alert is a structuring one
C6_Witness ==
    \E i \in 1..Len(alerts) :
        /\ alerts[i].triggered_rules = <<"geographic", "structuring">>
        /\ alerts[i].alert_type = "structuring"

\* the scorer raised, timed out or answered with another status than 200
ScorerFailed(outcome) == outcome.kind = "exception" \/ outcome.status_code # 200

\* C7: when the ML scorer call raises, times out or returns a non-200
\* response, the pass goes on with mlScore 0.0 through the rules, the final
\* score and the disposition; the transaction is not dropped and the loop
\* stops only when running is false.
C7_ScorerFailureDegrades ==
    /\ p_pc \in {"rules", "update", "alert"} /\ ScorerFailed(p_response)
       => p_risk_prediction = None
    /\ p_pc \in {"update", "alert"} /\ ScorerFailed(p_response)
       => IF p_rule_results.triggered_rules # <<>>
          THEN NearestHundredth(p_final_risk_score,
                                BoostedFormula(0, MaxRuleScoreOf(p_rule_results)),
                                10 * ScoreUnit)
          ELSE NearestHundredth(p_final_risk_score,
                                PlainFormula(0, MaxRuleScoreOf(p_rule_results)),
                                10 * ScoreUnit)
    /\ \A k \in 1..Len(mlog) :
          ScorerFailed(mlog[k]) /\ Finished(k)
          => \E i \in UpdatesOf(k) :
                /\ updates[i].ml_prediction = None
                /\ updates[i].status \in {"flagged", "clear"}
    /\ p_pc = "exited" => ~running

\* a pass whose scorer call raised, ended with rules hit and a disposition,
\* and the loop at work on the next transaction
C7_Witness ==
    /\ passes = 2
    /\ p_pc = "rules"
    /\ mlog[1].kind = "exception"
    /\ \E i \in UpdatesOf(1) :
          updates[i].ml_prediction = None /\ updates[i].rules_hit # <<>>

----------------------------------------------------------------------------
(* Properties of the rule evaluator, continued (SpecRule) *)

\* the i-th condition of the rule handed to _evaluate_rule is true
ConditionTrue(i) ==
    _evaluate_condition(r_rule_config.conditions[i], r_transaction) = Ok(TRUE)

\* no condition of the rule lets an exception through
NoConditionRaises ==
    \A i \in 1..Len(r_rule_config.conditions) :
        _evaluate_condition(r_rule_config.conditions[i], r_transaction).err = ""

TrueConditions == {i \in 1..Len(r_rule_config.conditions) : ConditionTrue(i)}

BaseScore == Get(r_rule_config, "score", Num(DefaultScore)).n

\* C11: a rule without conditions never triggers; under AND it triggers iff
\* all conditions are true (so [true, false] does not trigger and scores 0),
\* under OR iff at least one is true, and under any other logic value as
\* under AND.
C11_LogicCombination ==
    (r_pc = "done" /\ NoConditionRaises) =>
        LET n == Len(r_rule_config.conditions)
        IN  /\ r_ret.err = ""
            /\ n = 0 => r_ret = RuleReturn(FALSE, 0)
            /\ n > 0 /\ r_rule_config.logic = "OR"
               => (r_ret.is_triggered <=> TrueConditions # {})
            /\ n > 0 /\ r_rule_config.logic # "OR"
               => (r_ret.is_triggered <=> TrueConditions = 1..n)
            /\ ~r_ret.is_triggered => r_ret.final_score = 0

\* a rule of an unknown logic value with conditions [true, false]: no trigger
C11_Witness ==
    /\ r_pc = "done"
    /\ r_rule_config.logic = "XOR"
    /\ Len(r_rule_config.conditions) = 2
    /\ NoConditionRaises
    /\ TrueConditions = {1}
    /\ r_ret = RuleReturn(FALSE, 0)

\* C12: a triggered rule scores base_score * (true conditions / conditions)
\* and a rule that does not trigger scores 0: a triggered AND rule scores
\* base_score, an OR rule with k of n true scores base_score * k / n (0.8
\* with 1 of 2 gives 0.4), and no score exceeds base_score.
C12_ProportionalScore ==
    (r_pc = "done" /\ NoConditionRaises /\ Len(r_rule_config.conditions) > 0) =>
        LET n == Len(r_rule_config.conditions)
            k == Cardinality(TrueConditions)
        IN  /\ r_ret.is_triggered
               => r_ret.final_score * n = BaseScore * ScoreUnit * k
            /\ ~r_ret.is_triggered => r_ret.final_score = 0
            /\ r_ret.is_triggered /\ r_rule_config.logic # "OR"
               => r_ret.final_score = BaseScore * ScoreUnit
            /\ r_ret.final_score <= BaseScore * ScoreUnit
            /\ r_rule_config.logic = "OR" /\ BaseScore = 80 /\ n = 2 /\ k = 1
               => r_ret.final_score * 100 = 40 * 100 * ScoreUnit

\* an OR rule of base score 0.8 with one of two conditions true: 0.4
C12_Witness ==
    /\ r_pc = "done"
    /\ r_rule_config.logic = "OR"
    /\ r_rule_config.score = Num(80)
    /\ Len(r_rule_config.conditions) = 2
    /\ NoConditionRaises
    /\ Cardinality(TrueConditions) = 1
    /\ r_ret = RuleReturn(TRUE, 40 * ScoreUnit)

----------------------------------------------------------------------------
(* Properties of the rule registry, one caller (SpecSerial) *)

\* the names of the rules in the registry
RegistryNames == {rules[i].name : i \in 1..Len(rules)}

\* the configuration registered under a name
ConfigOf(name) == (CHOOSE i \in 1..Len(rules) : rules[i].name = name)

\* the rule registered under name triggers on the transaction
Triggers(name, transaction) ==
    LET r == _evaluate_rule(rules[ConfigOf(name)].config, transaction)
    IN  r.err = "" /\ r.is_triggered

\* the step is one call of evaluate_transaction
IsCall == calls' = calls + 1

\* C13: each call of evaluate_transaction adds exactly 1 to the evaluations
\* counter of every rule it evaluates, triggered or not; it adds exactly 1 to
\* the triggers counter and sets last_triggered to a non-null timestamp
\* exactly for the rules that trigger; triggers and last_triggered of the
\* other rules are unchanged.
C13_CountersPerCall ==
    [][IsCall =>
         \A name \in DOMAIN rule_stats :
            IF name \in RegistryNames
            THEN /\ rule_stats'[name].evaluations = rule_stats[name].evaluations + 1
                 /\ IF Triggers(name, evals'[1].transaction)
                    THEN /\ rule_stats'[name].triggers = rule_stats[name].triggers + 1
                         /\ rule_stats'[name].last_triggered # 0
                    ELSE /\ rule_stats'[name].triggers = rule_stats[name].triggers
                         /\ rule_stats'[name].last_triggered
                               = rule_stats[name].last_triggered
            ELSE rule_stats'[name] = rule_stats[name]]_vars

\* after one call, a rule that triggered beside a rule that was evaluated and
\* did not trigger
C13_Witness ==
    /\ calls = 1
    /\ \E a, b \in RegistryNames :
          /\ rule_stats[a] = [triggers |-> 1, evaluations |-> 1, last_triggered |-> 1]
          /\ rule_stats[b] = [triggers |-> 0, evaluations |-> 1, last_triggered |-> 0]
          /\ Triggers(a, evals[1].transaction)
          /\ ~Triggers(b, evals[1].transaction)

\* evaluating the rule registered under name raises on the transaction
Raises(name, transaction) ==
    _evaluate_rule(rules[ConfigOf(name)].config, transaction).err # ""

\* the names a finished call reports as triggered
Reported(ev) == {ev.triggered_rules[i] : i \in 1..Len(ev.triggered_rules)}

\* C14: when evaluating one rule raises during evaluate_transaction, that
\* rule is skipped (it is neither in triggered_rules nor in rule_scores),
\* every other rule of the registry is still evaluated for the same
\* transaction, and the call returns a normal result instead of raising.
C14_RaisingRuleIsSkipped ==
    [][IsCall =>
         /\ evals'[1].pc = "returned"
         /\ evals'[1].seen = rules
         /\ Reported(evals'[1]) = DOMAIN evals'[1].rule_scores
         /\ \A name \in RegistryNames :
               /\ rule_stats'[name].evaluations = rule_stats[name].evaluations + 1
               /\ Raises(name, evals'[1].transaction)
                  => name \notin Reported(evals'[1])
               /\ ~Raises(name, evals'[1].transaction)
                  => /\ name \in Reported(evals'[1])
                        <=> Triggers(name, evals'[1].transaction)
                     /\ name \in Reported(evals'[1])
                        => evals'[1].rule_scores[name]
                              = _evaluate_rule(rules[ConfigOf(name)].config,
                                               evals'[1].transaction).final_score]_vars

\* a call has returned after a rule that raised was followed by a rule that
\* triggered
C14_Witness ==
    /\ evals[1].pc = "returned"
    /\ \E i, j \in 1..Len(evals[1].seen) :
          /\ i < j
          /\ _evaluate_rule(evals[1].seen[i].config, evals[1].transaction).err # ""
          /\ evals[1].seen[i].name \notin Reported(evals[1])
          /\ evals[1].seen[j].name \in Reported(evals[1])

\* the step is one call of reload_rules
IsReload == reloads' = reloads + 1

C16_StatsNamesAreLoadedNames ==
    DOMAIN get_rule_stats(rule_stats) = RegistryNames

\* C17: between two consecutive reloads, that is within one generation of the
\* registry, the evaluations counter and the triggers counter of every rule
\* never decrease, whatever calls of evaluate_transaction are made.
C17_CountersMonotonic ==
    [][(reloads' = reloads /\ loader_pc' = loader_pc) =>
         \A name \in DOMAIN rule_stats :
            /\ name \in DOMAIN rule_stats'
            /\ rule_stats'[name].evaluations >= rule_stats[name].evaluations
            /\ rule_stats'[name].triggers >= rule_stats[name].triggers]_vars

\* two calls in one generation, of which one triggered a rule and the other
\* did not
C17_Witness ==
    /\ calls = 2
    /\ \E name \in RegistryNames :
          /\ rule_stats[name].evaluations = 2
          /\ rule_stats[name].triggers = 1

----------------------------------------------------------------------------
(* Properties of the producer and its queue (SpecProducer) *)

\* C18: when the bounded queue is full, add_transaction does not block the
\* producer indefinitely: the enqueue attempt returns, at once or after a
\* bounded wait, even if the consumer never takes an item off the queue (the
\* dropped transaction being counted and logged).
C18_EnqueueReturns == (pr_pc = "put") ~> (pr_pc # "put")

----------------------------------------------------------------------------
(* Properties of the stream processor, continued (SpecStream) *)

\* where the loop stands while a transaction is being processed
Processing == {"ml", "rules", "update", "alert"}

\* stop was called while a transaction was being processed
StoppedInFlight == stop_at.pc \in Processing

\* pass k has its disposition on record: clear, or flagged with its alert
Terminal(k) ==
    \E i \in UpdatesOf(k) :
       \/ updates[i].status = "clear" /\ AlertsOf(k) = {}
       \/ updates[i].status = "flagged" /\ AlertsOf(k) # {}

\* C19: when stop is called (running becomes false) while a transaction is
\* being processed, that transaction runs to its terminal state, clear or
\* flagged with its alert, before _process_transactions exits, and the loop
\* then exits without taking any further transaction off the queue.
C19_StopLetsInFlightFinish ==
    StoppedInFlight
    => /\ passes = stop_at.passes
       /\ p_pc \in Processing \cup {"loop", "exited"}
       /\ p_pc \in Processing => p_transaction.transaction_id = stop_at.passes
       /\ p_pc \in {"loop", "exited"} => Terminal(stop_at.passes)

\* stop came during the POST to the ML service; the transaction ended flagged
\* with its alert, the loop has exited and another transaction is still queued
C19_Witness ==
    /\ stop_at.pc = "ml"
    /\ p_pc = "exited"
    /\ queue # <<>>
    /\ \E i \in UpdatesOf(stop_at.passes) : updates[i].status = "flagged"
    /\ AlertsOf(stop_at.passes) # {}

\* the moves of _process_transactions from one stage to the next
StageOrder ==
    {<<"new", "loop">>, <<"loop", "get">>, <<"loop", "exited">>,
     <<"get", "loop">>, <<"get", "ml">>, <<"ml", "rules">>,
     <<"rules", "update">>, <<"update", "alert">>, <<"update", "loop">>,
     <<"alert", "loop">>}

\* C20: each dequeued transaction passes through the stages in the fixed
\* order received, scored (the ML prediction, then the rules), decided (the
\* final score), terminal (clear or flagged), the alert being created only
\* after the disposition has been recorded; no stage is repeated or revisited
\* for a transaction, and a transaction that reached a terminal state never
\* enters the pipeline again.
C20_FixedStageOrder ==
    [][/\ p_pc' # p_pc => <<p_pc, p_pc'>> \in StageOrder
       /\ (p_pc \in Processing /\ p_pc' \in Processing)
          => p_transaction' = p_transaction
       /\ (p_pc' = "ml" /\ p_pc # "ml")
          => /\ p_pc = "get"
             /\ passes' = passes + 1
             /\ p_transaction'.transaction_id = passes'
             /\ UpdatesOf(passes') = {} /\ AlertsOf(passes') = {}
       /\ passes' # passes => p_pc' = "ml"
       /\ mlog' # mlog
          => p_pc = "ml" /\ Len(mlog) = passes - 1 /\ Len(mlog') = passes
       /\ <<rule_stats, now, p_rule_results, p_final_risk_score>>'
             # <<rule_stats, now, p_rule_results, p_final_risk_score>>
          => p_pc \in {"new", "rules"}
       /\ updates' # updates
          => /\ p_pc = "update"
             /\ UpdatesOf(p_transaction.transaction_id) = {}
             /\ Len(updates') = Len(updates) + 1
             /\ updates'[Len(updates')].transaction_id = p_transaction.transaction_id
             /\ updates'[Len(updates')].risk_score = p_final_risk_score
       /\ alerts' # alerts
          => /\ p_pc = "alert"
             /\ UpdatesOf(p_transaction.transaction_id) # {}
             /\ AlertsOf(p_transaction.transaction_id) = {}
             /\ Len(alerts') = Len(alerts) + 1
             /\ alerts'[Len(alerts')].transaction_id = p_transaction.transaction_id]_vars

\* a first transaction has been through every stage and has its alert; the
\* second has its disposition recorded and its alert still to come
C20_Witness ==
    /\ passes = 2
    /\ p_pc = "alert"
    /\ AlertsOf(1) # {}
    /\ UpdatesOf(1) # {}
    /\ UpdatesOf(2) # {}
    /\ AlertsOf(2) = {}

\* the passes that have ended
FinishedPasses == {k \in 1..passes : Finished(k)}

ReferenceResults ==
    ApplyRulesResult(
        evaluate_transaction(p_transaction.transaction, rules,
                             [name \in DOMAIN rule_stats |-> FreshStats], 0).ev)

\* the last transaction dequeued has its rule results and its final score
Decided == passes >= 1 /\ p_pc \in {"update", "alert", "loop", "get", "exited"}

\* C22: the decision core is deterministic: with the same rule set, the same
\* transaction and the same ML prediction, a run gives the same triggered
\* rule list, rule scores, final score, disposition, alert type and severity
\* as a run on an engine without history, whatever rule statistics earlier
\* transactions have accumulated.
C22_DecisionIsDeterministic ==
    Decided =>
       \A ref \in {ReferenceResults} :
          \A score \in {_calculate_final_risk_score(p_risk_prediction, ref)} :
             /\ p_rule_results = ref
             /\ p_final_risk_score = score
             /\ p_pc # "update"
                => \A i \in UpdatesOf(passes) :
                      updates[i] = _update_transaction(passes, p_risk_prediction,
                                                       ref, score)
             /\ \A i \in AlertsOf(passes) :
                   alerts[i] = _create_alert(passes, p_risk_prediction, ref, score)

\* the second transaction has been flagged by a rule that the first one had
\* triggered too
C22_Witness ==
    /\ passes = 2
    /\ p_pc = "loop"
    /\ AlertsOf(2) # {}
    /\ \E name \in DOMAIN rule_stats :
          /\ rule_stats[name].triggers = 2
          /\ InList(name, p_rule_results.triggered_rules)

----------------------------------------------------------------------------
(* Properties of the final score, continued (SpecScore) *)

\* C23: for every ML prediction with risk_score in 0..10, or absent, and every
\* rule result with rule scores in 0..1, the final risk score lies in
\* 0.0..10.0 and is a whole number of hundredths; whenever at least one rule
\* triggered it is at least 1.0.
C23_FinalScoreRange ==
    s_pc = "done" =>
        /\ s_ret \in 0..1000
        /\ s_rule_results.triggered_rules # <<>> => s_ret >= 100

\* the boost takes a risk score of 9.0 with a rule score of 1.0 over 10.0, and
\* the cap brings it back
C23_Witness ==
    /\ s_pc = "done"
    /\ s_rule_results.triggered_rules # <<>>
    /\ MlScoreOf(s_ml_prediction) = 900
    /\ MaxRuleScoreOf(s_rule_results) = 100 * ScoreUnit
    /\ BoostedFormula(900, 100 * ScoreUnit) > 10000 * ScoreUnit
    /\ s_ret = 1000

----------------------------------------------------------------------------
(* Properties of the condition evaluator, continued (SpecCond) *)

\* the condition is contains or not_contains with a string as expected value,
\* on a field the transaction has
ContainsCase ==
    /\ c_pc = "done"
    /\ c_condition.operator \in {"contains", "not_contains"}
    /\ c_condition.field.t = "str"
    /\ c_condition.field.s # <<>>
    /\ c_condition.value.t = "str"
    /\ _get_field_value(c_transaction, c_condition.field.s) # None

\* C24: contains and not_contains are case-insensitive in both operands: the
\* expected value is lower-cased and tested as a substring of the lower-cased
\* string form of the field value, and not_contains is the exact negation.
C24_ContainsIgnoresCase ==
    ContainsCase =>
        c_ret = Ok((c_condition.operator = "contains")
                   <=> IsSubstring(Lower(c_condition.value.s),
                                   Lower(StrOf(_get_field_value(c_transaction,
                                                                c_condition.field.s)))))

----------------------------------------------------------------------------
(* Properties of the rule registry, continued (SpecSerial) *)

\* C25: load_rules skips a malformed rule document and goes on with the
\* others: after a load every registered rule is a mapping (a document that
\* is unparseable, empty or not a mapping is not registered), and neither
\* get_rules_summary nor evaluate_transaction fails because of one.
C25_MalformedDocumentsSkipped ==
    loader_pc = "idle" =>
        /\ \A i \in 1..Len(rules) : rules[i].config.t = "dict"
        /\ get_rules_summary(rules, rule_stats).err = ""
        /\ evals[1].pc # "raised"

----------------------------------------------------------------------------
(* Properties of the rule registry under concurrent callers (SpecConcurrent) *)

\* every call begun has completed
AllComplete == \A e \in 1..MaxEvals : evals[e].pc \in {"idle", "returned"}

\* the calls in which the rule registered under name triggered
TriggeringCalls(name) ==
    {k \in 1..Len(call_log) : Triggers(name, call_log[k])}

\* C26: increments of the rule statistics are not lost under concurrent
\* evaluations: when N calls of evaluate_transaction, interleaved in any way
\* at their suspension points, have each completed against the same registry
\* generation, every rule's evaluations counter is N and its triggers counter
\* is the number of those calls in which the rule triggered.
C26_NoLostIncrements ==
    AllComplete =>
        \A name \in RegistryNames :
           /\ rule_stats[name].evaluations = Len(call_log)
           /\ rule_stats[name].triggers = Cardinality(TriggeringCalls(name))

\* two calls have completed, the second begun while the first was suspended
\* (a second caller is taken only then), and a rule triggered in both
C26_Witness ==
    /\ AllComplete
    /\ Len(call_log) = 2
    /\ evals[1].pc = "returned"
    /\ evals[2].pc = "returned"
    /\ \E name \in RegistryNames : rule_stats[name].triggers = 2

----------------------------------------------------------------------------
(* Properties of the assembled stream service (SpecPipeline) *)

\* the producer's k-th transaction is on the queue it was put on
Enqueued(k) == \E i \in 1..Len(transaction_queue) : transaction_queue[i] = k

\* C27: every transaction the producer enqueues is eventually dequeued by
\* the StreamProcessor loop and driven to a terminal disposition, under fair
\* scheduling and while the processor is running: the queue add_transaction
\* writes to is the queue the coordinator's get_transaction reads from.
C27_EnqueuedIsProcessed ==
    \A k \in 1..MaxGenerated :
       (Enqueued(k) /\ running) ~> (Terminal(k) \/ ~running)

----------------------------------------------------------------------------
(* The shape of evaluate_transaction's result (SpecSerial) *)

\* the base score of a registered rule, in the unit of the rule scores
BaseScoreOf(name) ==
    Get(rules[ConfigOf(name)].config, "score", Num(DefaultScore)).n * ScoreUnit

----------------------------------------------------------------------------
(* The statistics of a rule, whatever calls have been made (SpecSerial) *)

\* C29: after any sequence of load_rules, reload_rules and
\* evaluate_transaction calls, evaluations in which a rule raises included,
\* every entry of rule_stats has 0 <= triggers <= evaluations, and its
\* last_triggered is non-null exactly when triggers > 0.
C29_StatsWellFormed ==
    \A name \in DOMAIN rule_stats :
       /\ 0 <= rule_stats[name].triggers
       /\ rule_stats[name].triggers <= rule_stats[name].evaluations
       /\ rule_stats[name].last_triggered # 0 <=> rule_stats[name].triggers > 0

\* after two calls, the second with a rule that raised: one rule has
\* triggered fewer times than it was evaluated, another has never triggered
C29_Witness ==
    /\ calls = 2
    /\ evals[1].pc = "returned"
    /\ \E i \in 1..Len(rules) : Raises(rules[i].name, evals[1].transaction)
    /\ \E a, b \in RegistryNames :
          /\ rule_stats[a].triggers = 1
          /\ rule_stats[a].evaluations = 2
          /\ rule_stats[a].last_triggered # 0
          /\ rule_stats[b].triggers = 0
          /\ rule_stats[b].evaluations = 2

----------------------------------------------------------------------------
(* The statistics handed out by get_rule_stats (SpecSnapshot) *)

\* the counters in the value get_rule_stats returned
ReturnedCounters ==
    [name \in DOMAIN returned_stats |-> returned_stats[name].stats]

\* the step is the caller's: no call of the engine that changes its state
IsCallerStep ==
    calls' = calls /\ reloads' = reloads /\ loader_pc' = loader_pc

\* C30: get_rule_stats returns a snapshot: the counters in a value it
\* returned do not change when evaluate_transaction or reload_rules runs
\* afterwards, and modifying the returned value does not change the engine's
\* own statistics.
C30_StatsSnapshot ==
    [][/\ (IsCall \/ IsReload) => ReturnedCounters' = ReturnedCounters
       /\ IsCallerStep => rule_stats' = rule_stats]_vars

====
